---- MODULE Spec2Model ----
(***************************************************************************)
(* A model of aws-spot-advisor-sejto: the dataset cache (DataSet.update in *)
(* lib/dataset.py), the selection pipeline (select_data in                 *)
(* aws_spot_advisor_sejto.py) and the filter predicates (lib/filters.py).  *)
(*                                                                         *)
(* Python strings that the code takes apart or lower-cases (header names,  *)
(* instance type identifiers) are sequences of one-character strings;      *)
(* strings the code only stores and compares (ETag values, labels) are     *)
(* TLA+ strings.                                                           *)
(***************************************************************************)
EXTENDS Integers, Sequences, FiniteSets, TLC

VARIABLES
    \* ---- DataSet (lib/dataset.py) and its surroundings
    data,               \* DataSet.data: 0 is the default {}, d >= 1 a parsed document
    data_checksum,      \* DataSet.data_checksum: NoChecksum is ""
    http_etag,          \* DataSet.http_etag
    http_last_modified, \* DataSet.http_last_modified
    file,               \* the local dataset file, data_fname
    pc,                 \* position of DataSet.update
    is_retry,           \* is_retry of the innermost running update()
    raised,             \* the exception update() ended with, "" for none
    requests,           \* the GET requests issued so far, each its header set
    responses,          \* the responses received so far
    writes,             \* number of writes of the local dataset file
    start,              \* the DataSet fields and the file when update() was called
    \* ---- select_data (aws_spot_advisor_sejto.py)
    dataset,            \* the parsed document handed to select_data
    args,               \* the argparse.Namespace handed to select_data
    selected,           \* outcome of select_data, [kind |-> "none"] before the call
    again,              \* outcome of a second call with the same arguments
    \* ---- numeric range predicates (lib/filters.py)
    probe,              \* value, min and max handed to the predicates
    verdict,            \* what each predicate returned, [done |-> FALSE] before
    \* ---- classification of one identifier (lib/filters.py, lib/cli_args.py)
    call,               \* the identifier, the two flags and the six facet lists
    classified,         \* what each function returned, [done |-> FALSE] before
    \* ---- sorting and formatting (get_sorting_function, lib/formatters.py)
    fmt_results,        \* the selected records, in the order of the results dict
    sort_order,         \* the value of --sort-order
    output,             \* what the formatter emitted, [kind |-> "none"] before
    \* ---- main (aws_spot_advisor_sejto.py)
    argv,               \* the values of the command line options
    main_pc,            \* position of main
    exit_code,          \* exit status of the process, -1 while it runs
    logged,             \* the messages main handed to logger.error
    config,             \* the cache-state file, config_fpath
    config_writes,      \* number of writes of the cache-state file
    called,             \* what main called after get_dataset, in call order
    stdout              \* what was printed to sys.stdout, [kind |-> "none"] for nothing

dsVars == <<data, data_checksum, http_etag, http_last_modified, file, pc,
            is_retry, raised, requests, responses, writes, start>>
selVars == <<dataset, args, selected, again>>
fltVars == <<probe, verdict>>
clsVars == <<call, classified>>
srtVars == <<fmt_results, sort_order, output>>
mainVars == <<argv, main_pc, exit_code, logged, config, config_writes,
              called, stdout>>
vars == <<dsVars, selVars, fltVars, clsVars, srtVars, mainVars>>

----------------------------------------------------------------------------
(* Strings as character sequences.                                          *)

\* str.lower() on one character
LowerChar(c) ==
    CASE c = "A" -> "a" [] c = "B" -> "b" [] c = "C" -> "c" [] c = "D" -> "d"
      [] c = "E" -> "e" [] c = "F" -> "f" [] c = "G" -> "g" [] c = "H" -> "h"
      [] c = "I" -> "i" [] c = "J" -> "j" [] c = "K" -> "k" [] c = "L" -> "l"
      [] c = "M" -> "m" [] c = "N" -> "n" [] c = "O" -> "o" [] c = "P" -> "p"
      [] c = "Q" -> "q" [] c = "R" -> "r" [] c = "S" -> "s" [] c = "T" -> "t"
      [] c = "U" -> "u" [] c = "V" -> "v" [] c = "W" -> "w" [] c = "X" -> "x"
      [] c = "Y" -> "y" [] c = "Z" -> "z" [] OTHER -> c

\* str.lower()
Lower(s) == [i \in DOMAIN s |-> LowerChar(s[i])]

----------------------------------------------------------------------------
(* The dataset cache: lib/dataset.py.                                       *)

\* Number of distinct dataset documents the remote and the disk can hold.
MaxDataset == 2

\* The empty string as a checksum.
NoChecksum == 0

\* A text is the bytes of a JSON document: the document it encodes and the
\* way it is laid out ("dump": as json.dump writes it; "raw": any other layout
\* of the same document, such as the remote's).  A body that is no JSON at all
\* is NotJson.
Texts == [doc : 1..MaxDataset, enc : {"dump", "raw"}]
NotJson == [doc |-> 0, enc |-> "text"]

\* json.load / rsp.json(): the document a text encodes.
json_load(t) == t.doc

\* json.dump: the text json.dump writes for a document.
json_dump(d) == [doc |-> d, enc |-> "dump"]

\* hashlib.file_digest(..., "sha256").hexdigest(): a non-empty digest, distinct
\* for distinct bytes.
Sha256(t) == 2 * t.doc - (IF t.enc = "dump" THEN 1 ELSE 0)

\* A checksum that is the digest of none of the texts above.
StaleChecksum == 2 * MaxDataset + 1

\* The local file: missing, present and accessible ("ok"), or present but
\* neither readable nor writable by the process ("locked").
NoFile == [st |-> "missing", text |-> NotJson]
Files == {NoFile} \cup [st : {"ok", "locked"}, text : Texts]

\* Header names as the code sees them, before key.lower().
HdrETag == <<"E", "T", "a", "g">>
HdrEtagLower == <<"e", "t", "a", "g">>
HdrLastModified == <<"L", "a", "s", "t", "-", "M", "o", "d", "i", "f", "i", "e", "d">>
HdrLastModifiedUpper == <<"L", "A", "S", "T", "-", "M", "O", "D", "I", "F", "I", "E", "D">>
HdrDate == <<"D", "a", "t", "e">>

\* Response header lists (requests' CaseInsensitiveDict: at most one entry per
\* case-insensitive name, in insertion order).
ETagParts == {<<>>, <<<<HdrETag, "e2">>>>, <<<<HdrEtagLower, "e3">>>>}
LastModifiedParts == {<<>>, <<<<HdrLastModified, "m2">>>>, <<<<HdrLastModifiedUpper, "m3">>>>}
HeaderLists ==
    {<<<<HdrDate, "now">>>> \o e \o m : e \in ETagParts, m \in LastModifiedParts}
        \cup {m \o e : e \in ETagParts \ {<<>>}, m \in LastModifiedParts \ {<<>>}}

\* The header lists explored in runs of main: no caching header, both in
\* their usual spelling, a lower-case etag alone, and an ETag that holds a
\* percent sign.
RunHeaderLists ==
    {<<<<HdrDate, "now">>>>,
     <<<<HdrDate, "now">>, <<HdrETag, "e2">>, <<HdrLastModified, "m2">>>>,
     <<<<HdrDate, "now">>, <<HdrEtagLower, "e3">>>>,
     <<<<HdrDate, "now">>, <<HdrETag, "e%">>>>}

\* What requests.get can hand back: a response, or a transport exception.
\* Every header list is explored in the calls of update() alone, those of
\* RunHeaderLists in the runs of main.
Responses ==
    LET lists == IF main_pc = "idle" THEN HeaderLists ELSE RunHeaderLists
    IN  [status : {200}, body : Texts \cup {NotJson}, headers : lists]
            \cup [status : {304, 404}, body : {NotJson}, headers : lists]

\* Values the cache-state file can hold for the two tokens.
StoredETags == {"", "e1"}
StoredLastModified == {"", "m1"}

\* calc_checksum when the digest call itself fails (hashlib.file_digest is
\* missing before Python 3.11): the except branch returns "" for every file.
calc_checksum_no_digest(f) == NoChecksum

\* DataSet.calc_checksum
calc_checksum(f) ==
    IF f.st = "ok" THEN Sha256(f.text) ELSE NoChecksum

\* check_checksum without the comparison: any stored checksum is trusted.
check_checksum_unchecked(sum, f) ==
    IF sum = NoChecksum THEN FALSE ELSE TRUE

\* DataSet.check_checksum
check_checksum(sum, f) ==
    IF sum = NoChecksum
    THEN FALSE
    ELSE IF calc_checksum(f) # sum THEN FALSE ELSE TRUE

\* make_caching_headers that forgets if-modified-since.
make_caching_headers_etag_only(etag, lm) ==
    IF etag # "" THEN {<<"if-none-match", etag>>} ELSE {}

\* DataSet.make_caching_headers
make_caching_headers(etag, lm) ==
    (IF etag # "" THEN {<<"if-none-match", etag>>} ELSE {})
        \cup (IF lm # "" THEN {<<"if-modified-since", lm>>} ELSE {})

\* get_data: the headers of the GET request it sends
get_data(extra_headers) ==
    {<<"User-Agent", "aws-spot-advisor-sejto">>} \cup extra_headers

\* update(), lines 116-127: the request it issues for the given fields and file
update_request(etag, lm, sum, f) ==
    LET caching_headers == make_caching_headers(etag, lm)
        is_valid == check_checksum(sum, f)
    IN  get_data(IF ~is_valid THEN {} ELSE caching_headers)

\* DataSet.extract_caching_headers, the loop over headers.items() from entry i
RECURSIVE extract_loop(_, _, _)
extract_loop(headers, i, acc) ==
    IF i > Len(headers)
    THEN acc
    ELSE LET key == Lower(headers[i][1])
             value == headers[i][2]
         IN  extract_loop(headers, i + 1,
                 IF key = <<"e", "t", "a", "g">>
                 THEN [acc EXCEPT !.etag = value]
                 ELSE IF key = <<"l", "a", "s", "t", "-", "m", "o", "d", "i", "f", "i", "e", "d">>
                      THEN [acc EXCEPT !.lm = value]
                      ELSE acc)

\* DataSet.extract_caching_headers: the two fields it leaves
extract_caching_headers(headers) ==
    extract_loop(headers, 1, [etag |-> "", lm |-> ""])

\* The statement that runs when a frame of update() falls out of its if/elif:
\* line 164 for the frame that got response r and then, when that frame is the
\* retry started at line 149, line 164 of the outer frame with the outer
\* frame's own response, responses[1].
final_headers(r) ==
    IF is_retry
    THEN extract_caching_headers(responses[1].headers)
    ELSE extract_caching_headers(r.headers)

InitDataSet ==
    /\ data = 0
    /\ data_checksum \in 0..StaleChecksum
    /\ http_etag \in StoredETags
    /\ http_last_modified \in StoredLastModified
    /\ file \in Files
    /\ pc = "start"
    /\ is_retry = FALSE
    /\ raised = ""
    /\ requests = <<>>
    /\ responses = <<>>
    /\ writes = 0
    /\ start = [data |-> data, data_checksum |-> data_checksum,
                http_etag |-> http_etag,
                http_last_modified |-> http_last_modified, file |-> file]

\* dataset.update(url): lines 116-127, up to the GET request being sent
Update ==
    /\ pc = "start"
    /\ requests' = Append(requests,
           update_request(http_etag, http_last_modified, data_checksum, file))
    /\ pc' = "wait"
    /\ UNCHANGED <<data, data_checksum, http_etag, http_last_modified, file,
                   is_retry, raised, responses, writes, start>>
    /\ UNCHANGED <<selVars, fltVars, clsVars, srtVars, mainVars>>

\* requests.get raises (timeout, connection error): it propagates
GetDataRaises ==
    /\ pc = "wait"
    /\ pc' = "raised"
    /\ raised' = "ConnectionError"
    /\ UNCHANGED <<data, data_checksum, http_etag, http_last_modified, file,
                   is_retry, requests, responses, writes, start>>
    /\ UNCHANGED <<selVars, fltVars, clsVars, srtVars, mainVars>>

\* The 304 branch without line 134: the call returns and self.data is what it
\* was.
Rsp304LoadSkipped ==
    /\ pc = "wait"
    /\ file.st = "ok"
    /\ \E r \in Responses :
         /\ r.status = 304
         /\ responses' = Append(responses, r)
         /\ http_etag' = final_headers(r).etag
         /\ http_last_modified' = final_headers(r).lm
    /\ pc' = "done"
    /\ UNCHANGED <<data, data_checksum, file, is_retry, raised, requests,
                   writes, start>>
    /\ UNCHANGED <<selVars, fltVars, clsVars, srtVars, mainVars>>

\* 304 and the local file opens: lines 128-134, then line 164
Rsp304Load ==
    /\ pc = "wait"
    /\ file.st = "ok"
    /\ \E r \in Responses :
         /\ r.status = 304
         /\ responses' = Append(responses, r)
         /\ data' = json_load(file.text)
         /\ http_etag' = final_headers(r).etag
         /\ http_last_modified' = final_headers(r).lm
    /\ pc' = "done"
    /\ UNCHANGED <<data_checksum, file, is_retry, raised, requests, writes, start>>
    /\ UNCHANGED <<selVars, fltVars, clsVars, srtVars, mainVars>>

\* The except clause catching every OSError instead of FileNotFoundError: an
\* unreadable local file is retried like a missing one.
Rsp304DeniedRetries ==
    /\ pc = "wait"
    /\ file.st = "locked"
    /\ ~is_retry
    /\ \E r \in Responses :
         /\ r.status = 304
         /\ responses' = Append(responses, r)
    /\ http_etag' = ""
    /\ http_last_modified' = ""
    /\ data_checksum' = NoChecksum
    /\ is_retry' = TRUE
    /\ requests' = Append(requests,
           update_request(http_etag', http_last_modified', data_checksum', file))
    /\ UNCHANGED <<data, file, pc, raised, writes, start>>
    /\ UNCHANGED <<selVars, fltVars, clsVars, srtVars, mainVars>>

\* 304 and open() fails with an OSError other than FileNotFoundError
Rsp304Denied ==
    /\ pc = "wait"
    /\ file.st = "locked"
    /\ \E r \in Responses :
         /\ r.status = 304
         /\ responses' = Append(responses, r)
    /\ pc' = "raised"
    /\ raised' = "PermissionError"
    /\ UNCHANGED <<data, data_checksum, http_etag, http_last_modified, file,
                   is_retry, requests, writes, start>>
    /\ UNCHANGED <<selVars, fltVars, clsVars, srtVars, mainVars>>

\* The retry without lines 146-148: the stored tokens and checksum survive
\* into the recursive call.
Rsp304RetryKeepsFields ==
    /\ pc = "wait"
    /\ file.st = "missing"
    /\ ~is_retry
    /\ \E r \in Responses :
         /\ r.status = 304
         /\ responses' = Append(responses, r)
    /\ is_retry' = TRUE
    /\ requests' = Append(requests,
           update_request(http_etag, http_last_modified, data_checksum, file))
    /\ UNCHANGED <<data, data_checksum, http_etag, http_last_modified, file,
                   pc, raised, writes, start>>
    /\ UNCHANGED <<selVars, fltVars, clsVars, srtVars, mainVars>>

\* 304, FileNotFoundError, first attempt: lines 135-149, into the recursive
\* update(is_retry=True) up to its GET request
Rsp304Retry ==
    /\ pc = "wait"
    /\ file.st = "missing"
    /\ ~is_retry
    /\ \E r \in Responses :
         /\ r.status = 304
         /\ responses' = Append(responses, r)
    /\ http_etag' = ""
    /\ http_last_modified' = ""
    /\ data_checksum' = NoChecksum
    /\ is_retry' = TRUE
    /\ requests' = Append(requests,
           update_request(http_etag', http_last_modified', data_checksum', file))
    /\ UNCHANGED <<data, file, pc, raised, writes, start>>
    /\ UNCHANGED <<selVars, fltVars, clsVars, srtVars, mainVars>>

\* The retry without its is_retry guard: a 304 with a missing file retries
\* again.
Rsp304LoopUnguarded ==
    /\ pc = "wait"
    /\ file.st = "missing"
    /\ is_retry
    /\ \E r \in Responses :
         /\ r.status = 304
         /\ responses' = Append(responses, r)
    /\ requests' = Append(requests,
           update_request(http_etag, http_last_modified, data_checksum, file))
    /\ UNCHANGED <<data, data_checksum, http_etag, http_last_modified, file,
                   pc, is_retry, raised, writes, start>>
    /\ UNCHANGED <<selVars, fltVars, clsVars, srtVars, mainVars>>

\* 304, FileNotFoundError, in the retry: line 140
Rsp304Loop ==
    /\ pc = "wait"
    /\ file.st = "missing"
    /\ is_retry
    /\ \E r \in Responses :
         /\ r.status = 304
         /\ responses' = Append(responses, r)
    /\ pc' = "raised"
    /\ raised' = "RecursionError"
    /\ UNCHANGED <<data, data_checksum, http_etag, http_last_modified, file,
                   is_retry, requests, writes, start>>
    /\ UNCHANGED <<selVars, fltVars, clsVars, srtVars, mainVars>>

\* 200: lines 150-158, then line 164
Rsp200 ==
    /\ pc = "wait"
    /\ \E r \in Responses :
         /\ r.status = 200
         /\ responses' = Append(responses, r)
         /\ IF r.body = NotJson
            THEN \* rsp.json() raises
                 /\ pc' = "raised"
                 /\ raised' = "JSONDecodeError"
                 /\ UNCHANGED <<data, data_checksum, http_etag,
                                http_last_modified, file, writes>>
            ELSE IF file.st = "locked"
            THEN \* open(..., "w") raises after self.data was assigned
                 /\ data' = json_load(r.body)
                 /\ pc' = "raised"
                 /\ raised' = "PermissionError"
                 /\ UNCHANGED <<data_checksum, http_etag, http_last_modified,
                                file, writes>>
            ELSE /\ data' = json_load(r.body)
                 /\ file' = [st |-> "ok", text |-> json_dump(data')]
                 /\ writes' = writes + 1
                 /\ data_checksum' = calc_checksum(file')
                 /\ http_etag' = final_headers(r).etag
                 /\ http_last_modified' = final_headers(r).lm
                 /\ pc' = "done"
                 /\ UNCHANGED raised
    /\ UNCHANGED <<is_retry, requests, start>>
    /\ UNCHANGED <<selVars, fltVars, clsVars, srtVars, mainVars>>

\* update() without its else branch: an unexpected status falls through to
\* line 164 and the call returns.
RspOtherFallsThrough ==
    /\ pc = "wait"
    /\ \E r \in Responses :
         /\ r.status \notin {200, 304}
         /\ responses' = Append(responses, r)
         /\ http_etag' = final_headers(r).etag
         /\ http_last_modified' = final_headers(r).lm
    /\ pc' = "done"
    /\ UNCHANGED <<data, data_checksum, file, is_retry, raised, requests,
                   writes, start>>
    /\ UNCHANGED <<selVars, fltVars, clsVars, srtVars, mainVars>>

\* any other status: lines 159-162 (a ValueError, be it the one raised or the
\* one '{:s}'.format(rsp.status_code) raises for an int status code)
RspOther ==
    /\ pc = "wait"
    /\ \E r \in Responses :
         /\ r.status \notin {200, 304}
         /\ responses' = Append(responses, r)
    /\ pc' = "raised"
    /\ raised' = "ValueError"
    /\ UNCHANGED <<data, data_checksum, http_etag, http_last_modified, file,
                   is_retry, requests, writes, start>>
    /\ UNCHANGED <<selVars, fltVars, clsVars, srtVars, mainVars>>

NextDataSet ==
    \/ Update
    \/ GetDataRaises
    \/ Rsp304Load
    \/ Rsp304Denied
    \/ Rsp304Retry
    \/ Rsp304Loop
    \/ Rsp200
    \/ RspOther

----------------------------------------------------------------------------
(* Instance type identifiers and regular expressions: lib/filters.py.       *)

Letters == {"a", "b", "c", "d", "e", "f", "g", "h", "i", "j", "k", "l", "m",
            "n", "o", "p", "q", "r", "s", "t", "u", "v", "w", "x", "y", "z"}
Digits == {"0", "1", "2", "3", "4", "5", "6", "7", "8", "9"}

\* [a-z] under re.I
IsLetter(c) == LowerChar(c) \in Letters

\* [0-9]
IsDigit(c) == c \in Digits

\* str.split(sep): the parts between the occurrences of the separator
Split(s, sep) ==
    LET P == {i \in DOMAIN s : s[i] = sep}
        n == Cardinality(P)
        cut(j) == IF j = 0 THEN 0
                  ELSE IF j = n + 1 THEN Len(s) + 1
                  ELSE CHOOSE p \in P : Cardinality({q \in P : q < p}) = j - 1
    IN  [j \in 1..(n + 1) |-> SubSeq(s, cut(j - 1) + 1, cut(j) - 1)]

\* sub occurs in s at position i
OccursAt(s, sub, i) ==
    /\ i >= 1
    /\ i + Len(sub) - 1 <= Len(s)
    /\ SubSeq(s, i, i + Len(sub) - 1) = sub

\* [a-z] where the expressions have [a-z]+: a run of at most one letter.
LetterRunOne(s, i) ==
    IF i <= Len(s) /\ IsLetter(s[i]) THEN 1 ELSE 0

\* Length of the longest prefix of s, from position i on, made of letters
RECURSIVE LetterRun(_, _)
LetterRun(s, i) ==
    IF i <= Len(s) /\ IsLetter(s[i]) THEN 1 + LetterRun(s, i + 1) ELSE 0

\* [0-9] where RE_EC2IT1 has [0-9]+: a run of at most one digit.
DigitRunOne(s, i) ==
    IF i <= Len(s) /\ IsDigit(s[i]) THEN 1 ELSE 0

\* Length of the longest prefix of s, from position i on, made of digits
RECURSIVE DigitRun(_, _)
DigitRun(s, i) ==
    IF i <= Len(s) /\ IsDigit(s[i]) THEN 1 + DigitRun(s, i + 1) ELSE 0

\* RE_METAL = re.compile(r"metal")
RE_METAL == <<"m", "e", "t", "a", "l">>

\* RE_METAL.fullmatch(s) where the code calls search
re_metal_fullmatch(s) == s = RE_METAL

\* RE_METAL.search(s): case-sensitive search of a literal
re_metal_search(s) == \E i \in 1..Len(s) : OccursAt(s, RE_METAL, i)

\* A compiled pattern of the facet catalogs is a set of alternatives, each a
\* literal with an optional negative lookbehind and negative lookaheads:
\* (?<!behind)lit(?!ahead1|ahead2).  No pattern (None) is the empty set: a
\* compiled pattern has at least one alternative.
None == {}
Alt(behind, lit, ahead) == [behind |-> behind, lit |-> lit, ahead |-> ahead]

\* One alternative matches s at position i (re.I: letters compare lower-cased)
alt_matches_at(alt, s, i) ==
    LET t == Lower(s)
        j == i + Len(alt.lit)
    IN  /\ OccursAt(t, Lower(alt.lit), i)
        /\ ~(alt.behind # <<>> /\ OccursAt(t, Lower(alt.behind), i - Len(alt.behind)))
        /\ \A a \in alt.ahead : ~OccursAt(t, Lower(a), j)

\* pattern.search(s) is not None
re_search(pattern, s) ==
    \E alt \in pattern : \E i \in 1..(Len(s) + 1) : alt_matches_at(alt, s, i)

\* filter_by_regex that consults the exclude pattern before the include one.
filter_by_regex_exclude_first(input_data, re_exclude, re_include) ==
    IF re_exclude # None /\ re_search(re_exclude, input_data)
    THEN FALSE
    ELSE IF re_include # None
         THEN re_search(re_include, input_data)
         ELSE TRUE

\* filter_by_regex
filter_by_regex(input_data, re_exclude, re_include) ==
    IF re_include # None
    THEN IF re_search(re_include, input_data) THEN TRUE ELSE FALSE
    ELSE IF re_exclude # None /\ re_search(re_exclude, input_data)
         THEN FALSE
         ELSE TRUE

\* filter_emr
filter_emr(emr_supported, emr_only) ==
    IF ~emr_only THEN TRUE ELSE emr_supported

\* parse_ec2_instance_type: [ok |-> FALSE] stands for ValueError
parse_ec2_instance_type(instance_type) ==
    LET splitted == Split(instance_type, ".")
    IN  IF Len(splitted) # 2
        THEN [ok |-> FALSE]
        ELSE LET fam == splitted[1]
                 size == splitted[2]
                 nl == LetterRun(fam, 1)
                 nd == DigitRun(fam, nl + 1)
             IN  IF nl >= 1 /\ nd >= 1
                 THEN \* RE_EC2IT1: ^[a-z]+ [0-9]+ .*
                      [ok |-> TRUE,
                       series |-> Lower(SubSeq(fam, 1, nl)),
                       gen |-> SubSeq(fam, nl + 1, nl + nd),
                       opts |-> Lower(SubSeq(fam, nl + nd + 1, Len(fam))),
                       size |-> Lower(size)]
                 ELSE IF nl >= 1 /\ Len(fam) >= nl + 2 /\ fam[nl + 1] = "-"
                 THEN \* RE_EC2IT2: ^[a-z]+ \- .+  (no gen group: "0")
                      [ok |-> TRUE,
                       series |-> Lower(SubSeq(fam, 1, nl)),
                       gen |-> <<"0">>,
                       opts |-> Lower(SubSeq(fam, nl + 2, Len(fam))),
                       size |-> Lower(size)]
                 ELSE [ok |-> FALSE]

\* filter_instance_type that discards what it cannot parse.
filter_instance_type_fail_closed(instance_type, re_exclude_instance_series, re_include_instance_series, re_exclude_instance_generations, re_include_instance_generations, re_exclude_instance_options, re_include_instance_options) ==
    LET parsed == parse_ec2_instance_type(instance_type)
    IN  IF ~parsed.ok
        THEN FALSE
        ELSE /\ filter_by_regex(parsed.series, re_exclude_instance_series,
                                re_include_instance_series)
             /\ filter_by_regex(parsed.gen, re_exclude_instance_generations,
                                re_include_instance_generations)
             /\ filter_by_regex(parsed.opts, re_exclude_instance_options,
                                re_include_instance_options)

\* filter_instance_type
filter_instance_type(instance_type, re_exclude_instance_series, re_include_instance_series, re_exclude_instance_generations, re_include_instance_generations, re_exclude_instance_options, re_include_instance_options) ==
    LET parsed == parse_ec2_instance_type(instance_type)
    IN  IF ~parsed.ok
        THEN TRUE
        ELSE LET keep_series == filter_by_regex(parsed.series,
                                    re_exclude_instance_series,
                                    re_include_instance_series)
                 keep_gen == filter_by_regex(parsed.gen,
                                 re_exclude_instance_generations,
                                 re_include_instance_generations)
                 keep_options == filter_by_regex(parsed.opts,
                                     re_exclude_instance_options,
                                     re_include_instance_options)
             IN  IF ~keep_series \/ ~keep_gen \/ ~keep_options
                 THEN FALSE
                 ELSE TRUE

\* filter_inters with the bounds excluded.
filter_inters_open(inters, inters_min, inters_max) ==
    IF inters > inters_min /\ inters < inters_max THEN TRUE ELSE FALSE

\* filter_inters (int() of an integer is the integer)
filter_inters(inters, inters_min, inters_max) ==
    IF inters >= inters_min /\ inters <= inters_max THEN TRUE ELSE FALSE

\* filter_mem
filter_mem(mem_gb, mem_min, mem_max) ==
    IF mem_gb >= mem_min /\ mem_gb <= mem_max THEN TRUE ELSE FALSE

\* filter_savings with the upper bound excluded.
filter_savings_half_open(savings, savings_min, savings_max) ==
    IF savings >= savings_min /\ savings < savings_max THEN TRUE ELSE FALSE

\* filter_savings (int() of an integer is the integer)
filter_savings(savings, savings_min, savings_max) ==
    IF savings >= savings_min /\ savings <= savings_max THEN TRUE ELSE FALSE

\* filter_vcpu
filter_vcpu(vcpus, vcpu_min, vcpu_max) ==
    IF vcpus >= vcpu_min /\ vcpus <= vcpu_max THEN TRUE ELSE FALSE

\* include_instance_type that takes an identifier without a size for a VM
\* instead of raising.
include_instance_type_lenient(instance_type, exclude_metal, exclude_vm) ==
    IF ~exclude_metal /\ ~exclude_vm
    THEN "keep"
    ELSE LET is_metal == re_metal_search(instance_type)
         IN  IF is_metal /\ exclude_metal THEN "discard"
             ELSE IF ~is_metal /\ exclude_vm THEN "discard"
             ELSE "keep"

\* include_instance_type: "keep", "discard" or "ValueError"
include_instance_type(instance_type, exclude_metal, exclude_vm) ==
    IF ~exclude_metal /\ ~exclude_vm
    THEN "keep"
    ELSE LET splitted == Split(instance_type, ".")
         IN  IF Len(splitted) # 2
             THEN "ValueError"
             ELSE LET is_metal == re_metal_search(splitted[2])
                  IN  IF is_metal /\ exclude_metal THEN "discard"
                      ELSE IF ~is_metal /\ exclude_vm THEN "discard"
                      ELSE "keep"

----------------------------------------------------------------------------
(* The selection pipeline: select_data in aws_spot_advisor_sejto.py.        *)
(* Python dicts are functions: the order a dict is iterated in decides only *)
(* which key an exception names, not which exception is raised or what is  *)
(* returned.                                                                *)

\* Instance type identifiers of the datasets explored.
T3Nano == <<"t", "3", ".", "n", "a", "n", "o">>
M5Metal == <<"m", "5", ".", "m", "e", "t", "a", "l">>
X1e == <<"x", "1", "e">>

\* data["instance_types"]: the static data of each identifier when present
TypeInfo(id) ==
    IF id = T3Nano THEN [emr |-> FALSE, cores |-> 2, ram_gb |-> 1]
    ELSE IF id = M5Metal THEN [emr |-> TRUE, cores |-> 96, ram_gb |-> 384]
    ELSE [emr |-> TRUE, cores |-> 4, ram_gb |-> 122]
InstanceTypeTables ==
    {[id \in ids |-> TypeInfo(id)] : ids \in SUBSET {T3Nano, M5Metal, X1e}}

\* data["spot_advisor"][region][os]: identifier -> {"s": savings, "r": index}
AdvisorEntries ==
    {[s |-> 75, r |-> 0], [s |-> 76, r |-> 0], [s |-> 80, r |-> 1],
     [s |-> 76, r |-> 2]}
AdvisorTables ==
    UNION {[ids -> AdvisorEntries] : ids \in SUBSET {T3Nano, M5Metal, X1e}}

\* data["ranges"]: index 2 is in none of them, and one repeats index 0
RangeLists ==
    {<<[index |-> 0, label |-> "<5%", max |-> 5],
       [index |-> 1, label |-> "5-10%", max |-> 11]>>,
     <<[index |-> 1, label |-> "5-10%", max |-> 11],
       [index |-> 0, label |-> "<5%", max |-> 5],
       [index |-> 0, label |-> ">20%", max |-> 100]>>}

DataSets ==
    [ranges : RangeLists,
     instance_types : InstanceTypeTables,
     spot_advisor : {[region \in {"us-east-1"} |-> [os \in {"Linux"} |-> t]] :
                       t \in AdvisorTables}]

\* The pattern parse_instance_series builds for the series 't': (?<!v)t(?!rn)
SeriesT == {Alt(<<"v">>, <<"t">>, {<<"r", "n">>})}

\* The argparse.Namespace: parse_args' defaults, and narrower choices for the
\* savings range, the interruption range, one of vCPU / memory / EMR, the
\* metal / VM exclusion (mutually exclusive options) and the series pattern.
Args ==
    {a \in [region : {"us-east-1"}, os : {"Linux"},
            savings_min : {-1, 76}, savings_max : {101, 76},
            inters_min : {-1}, inters_max : {101, 5},
            vcpu_min : {-1, 4}, vcpu_max : {65535},
            mem_min : {-1}, mem_max : {65535, 122},
            emr_only : BOOLEAN,
            exclude_metal : BOOLEAN, exclude_vm : BOOLEAN,
            re_exclude_instance_series : {None, SeriesT},
            re_include_instance_series : {None},
            re_exclude_instance_generations : {None},
            re_include_instance_generations : {None},
            re_exclude_instance_options : {None},
            re_include_instance_options : {None}] :
        /\ ~(a.exclude_metal /\ a.exclude_vm)
        /\ a.savings_min = 76 => a.savings_max = 76
        /\ a.vcpu_min = 4 => a.mem_max = 65535
        /\ a.emr_only => (a.vcpu_min = -1 /\ a.mem_max = 65535)}

\* interrupts = {int(r["index"]): r for r in data["ranges"]}: a later range
\* with the same index replaces an earlier one
interrupts(ranges) ==
    [k \in {ranges[i].index : i \in DOMAIN ranges} |->
        ranges[CHOOSE i \in DOMAIN ranges :
                 /\ ranges[i].index = k
                 /\ \A j \in DOMAIN ranges : ranges[j].index = k => j <= i]]

\* select_data, lines 402-413: [ok |-> FALSE] when interrupts[value["r"]]
\* raises KeyError, which it does for an entry that passed filter_savings
available_instances(d, a) ==
    LET table == d.spot_advisor[a.region][a.os]
        lookup == interrupts(d.ranges)
        passed == {key \in DOMAIN table :
                     filter_savings(table[key].s, a.savings_min, a.savings_max)}
    IN  IF \E key \in passed : table[key].r \notin DOMAIN lookup
        THEN [ok |-> FALSE]
        ELSE [ok |-> TRUE,
              keys |-> {key \in passed :
                          filter_inters(lookup[table[key].r].max,
                                        a.inters_min, a.inters_max)}]

\* select_data, lines 415-436: the keys of results; include_instance_type is
\* called for every key of instance_types that is in available_instances
result_keys(d, a, available) ==
    LET candidates == DOMAIN d.instance_types \cap available
    IN  IF \E key \in candidates :
              include_instance_type(key, a.exclude_metal, a.exclude_vm) = "ValueError"
        THEN [ok |-> FALSE]
        ELSE [ok |-> TRUE,
              keys |-> {key \in candidates :
                          /\ include_instance_type(key, a.exclude_metal, a.exclude_vm) = "keep"
                          /\ filter_vcpu(d.instance_types[key].cores, a.vcpu_min, a.vcpu_max)
                          /\ filter_mem(d.instance_types[key].ram_gb, a.mem_min, a.mem_max)
                          /\ filter_emr(d.instance_types[key].emr, a.emr_only)}]

\* select_data: what it returns, or the exception it ends with
select_data(d, a) ==
    LET table == d.spot_advisor[a.region][a.os]
        lookup == interrupts(d.ranges)
        available == available_instances(d, a)
    IN  IF ~available.ok
        THEN [kind |-> "KeyError"]
        ELSE LET results == result_keys(d, a, available.keys)
             IN  IF ~results.ok
                 THEN [kind |-> "ValueError"]
                 ELSE IF \E key \in results.keys : table[key].r \notin DOMAIN lookup
                 THEN \* lines 442-452: formatting the message with '{:s}' and
                      \* the int inter_range raises ValueError before the
                      \* DataProcessingException is built
                      [kind |-> "ValueError"]
                 ELSE [kind |-> "ok",
                       results |->
                          [key \in results.keys |->
                             [instance_type |-> key,
                              emr |-> d.instance_types[key].emr,
                              vcpus |-> d.instance_types[key].cores,
                              mem_gb |-> d.instance_types[key].ram_gb,
                              savings |-> table[key].s,
                              inter_label |-> lookup[table[key].r].label,
                              inter_max |-> lookup[table[key].r].max]]]

\* The orders a dict with the keys S can be iterated in: the order its keys
\* were inserted in, which for a parsed document is the order of the text.
Orders(S) ==
    {o \in [1..Cardinality(S) -> S] : \A i, j \in DOMAIN o : i # j => o[i] # o[j]}

\* The comprehension of lines 402-413 that stops at its first kept key.
RECURSIVE available_loop_first(_, _, _, _)
available_loop_first(order, table, lookup, a) ==
    IF order = <<>>
    THEN [ok |-> TRUE, keys |-> <<>>]
    ELSE LET key == Head(order)
             value == table[key]
         IN  IF ~filter_savings(value.s, a.savings_min, a.savings_max)
             THEN available_loop_first(Tail(order), table, lookup, a)
             ELSE IF value.r \notin DOMAIN lookup
             THEN [ok |-> FALSE]
             ELSE IF filter_inters(lookup[value.r].max, a.inters_min, a.inters_max)
             THEN [ok |-> TRUE, keys |-> <<key>>]
             ELSE available_loop_first(Tail(order), table, lookup, a)

\* select_data, lines 402-413, key by key in the order .items() yields them:
\* the keys kept, or [ok |-> FALSE] at the first key whose lookup raises
\* KeyError
RECURSIVE available_loop(_, _, _, _)
available_loop(order, table, lookup, a) ==
    IF order = <<>>
    THEN [ok |-> TRUE, keys |-> <<>>]
    ELSE LET key == Head(order)
             value == table[key]
         IN  IF ~filter_savings(value.s, a.savings_min, a.savings_max)
             THEN available_loop(Tail(order), table, lookup, a)
             ELSE IF value.r \notin DOMAIN lookup
             THEN [ok |-> FALSE]
             ELSE LET rest == available_loop(Tail(order), table, lookup, a)
                  IN  IF ~rest.ok THEN rest
                      ELSE IF filter_inters(lookup[value.r].max,
                                            a.inters_min, a.inters_max)
                      THEN [ok |-> TRUE, keys |-> <<key>> \o rest.keys]
                      ELSE rest

\* select_data, lines 415-436, key by key in the order .items() yields them:
\* the keys of results in insertion order, or [ok |-> FALSE] at the first key
\* for which include_instance_type raises ValueError
RECURSIVE results_loop(_, _, _, _)
results_loop(order, types, available, a) ==
    IF order = <<>>
    THEN [ok |-> TRUE, keys |-> <<>>]
    ELSE LET key == Head(order)
             values == types[key]
         IN  IF key \notin available
             THEN results_loop(Tail(order), types, available, a)
             ELSE IF include_instance_type(key, a.exclude_metal, a.exclude_vm) = "ValueError"
             THEN [ok |-> FALSE]
             ELSE LET rest == results_loop(Tail(order), types, available, a)
                  IN  IF ~rest.ok THEN rest
                      ELSE IF /\ include_instance_type(key, a.exclude_metal, a.exclude_vm) = "keep"
                              /\ filter_vcpu(values.cores, a.vcpu_min, a.vcpu_max)
                              /\ filter_mem(values.ram_gb, a.mem_min, a.mem_max)
                              /\ filter_emr(values.emr, a.emr_only)
                      THEN [ok |-> TRUE, keys |-> <<key>> \o rest.keys]
                      ELSE rest

\* select_data with the two mappings it walks iterated in the given orders:
\* what it returns, with the keys of results in insertion order, or the
\* exception it ends with
select_data_in_order(d, a, advisor_order, types_order) ==
    LET table == d.spot_advisor[a.region][a.os]
        lookup == interrupts(d.ranges)
        available == available_loop(advisor_order, table, lookup, a)
    IN  IF ~available.ok
        THEN [kind |-> "KeyError"]
        ELSE LET results == results_loop(types_order, d.instance_types,
                                         {available.keys[i] : i \in DOMAIN available.keys}, a)
             IN  IF ~results.ok
                 THEN [kind |-> "ValueError"]
                 ELSE IF \E i \in DOMAIN results.keys :
                            table[results.keys[i]].r \notin DOMAIN lookup
                 THEN [kind |-> "ValueError"]
                 ELSE [kind |-> "ok",
                       keys |-> results.keys,
                       results |->
                          [key \in {results.keys[i] : i \in DOMAIN results.keys} |->
                             [instance_type |-> key,
                              emr |-> d.instance_types[key].emr,
                              vcpus |-> d.instance_types[key].cores,
                              mem_gb |-> d.instance_types[key].ram_gb,
                              savings |-> table[key].s,
                              inter_label |-> lookup[table[key].r].label,
                              inter_max |-> lookup[table[key].r].max]]]

InitSelect ==
    /\ dataset \in DataSets
    /\ args \in Args
    /\ selected = [kind |-> "none"]
    /\ again = [kind |-> "none"]

\* results = select_data(dataset.data, args)
SelectData ==
    /\ selected.kind = "none"
    /\ selected' = select_data(dataset, args)
    /\ UNCHANGED <<dataset, args, again, dsVars, fltVars, clsVars, srtVars, mainVars>>

\* select_data called once more with the same dataset and arguments, the
\* dataset being any document with the same content: its two mappings are
\* iterated in any order
SelectDataAgain ==
    /\ selected.kind # "none"
    /\ again.kind = "none"
    /\ \E advisor_order \in Orders(DOMAIN dataset.spot_advisor[args.region][args.os]),
          types_order \in Orders(DOMAIN dataset.instance_types) :
         again' = select_data_in_order(dataset, args, advisor_order, types_order)
    /\ UNCHANGED <<dataset, args, selected, dsVars, fltVars, clsVars, srtVars, mainVars>>

----------------------------------------------------------------------------
(* The numeric range predicates of lib/filters.py, applied to one value.    *)

\* Largest value, minimum and maximum tried; the smallest is -1, the default
\* of the minimum options.
MaxProbe == 3
ProbeValues == (-1)..MaxProbe

InitFilter ==
    /\ probe \in [value : ProbeValues, min : ProbeValues, max : ProbeValues]
    /\ verdict = [done |-> FALSE]

\* The four predicates called with the same value and bounds
ApplyFilters ==
    /\ ~verdict.done
    /\ verdict' = [done |-> TRUE,
                   vcpu |-> filter_vcpu(probe.value, probe.min, probe.max),
                   mem |-> filter_mem(probe.value, probe.min, probe.max),
                   savings |-> filter_savings(probe.value, probe.min, probe.max),
                   inters |-> filter_inters(probe.value, probe.min, probe.max)]
    /\ UNCHANGED <<probe, dsVars, selVars, clsVars, srtVars, mainVars>>

----------------------------------------------------------------------------
(* The facet catalogs (lib/models.py) and the facet options of the command  *)
(* line (lib/cli_args.py).                                                  *)

Range(f) == {f[i] : i \in DOMAIN f}

\* EC2InstanceType.list_series(): key -> pattern
list_series ==
    (<<"c">> :> Alt(<<"m", "a">>, <<"c">>, {}))
    @@ (<<"d">> :> Alt(<<>>, <<"d">>, {}))
    @@ (<<"f">> :> Alt(<<"i", "n">>, <<"f">>, {}))
    @@ (<<"g">> :> Alt(<<>>, <<"g">>, {}))
    @@ (<<"h", "p", "c">> :> Alt(<<>>, <<"h", "p", "c">>, {}))
    @@ (<<"i", "m">> :> Alt(<<>>, <<"i", "m">>, {}))
    @@ (<<"i", "n", "f">> :> Alt(<<>>, <<"i", "n", "f">>, {}))
    @@ (<<"i", "s">> :> Alt(<<>>, <<"i", "s">>, {}))
    @@ (<<"i">> :> Alt(<<>>, <<"i">>, {<<"m">>, <<"n", "f">>, <<"s">>}))
    @@ (<<"m", "a", "c">> :> Alt(<<>>, <<"m", "a", "c">>, {}))
    @@ (<<"m">> :> Alt(<<"i">>, <<"m">>, {<<"a", "c">>}))
    @@ (<<"p">> :> Alt(<<"h">>, <<"p">>, {<<"c">>}))
    @@ (<<"r">> :> Alt(<<"t">>, <<"r">>, {<<"n">>}))
    @@ (<<"t">> :> Alt(<<"v">>, <<"t">>, {<<"r", "n">>}))
    @@ (<<"t", "r", "n">> :> Alt(<<>>, <<"t", "r", "n">>, {}))
    @@ (<<"u">> :> Alt(<<>>, <<"u">>, {}))
    @@ (<<"v", "t">> :> Alt(<<>>, <<"v", "t">>, {}))
    @@ (<<"x">> :> Alt(<<>>, <<"x">>, {}))

\* EC2InstanceType.list_options(): key -> pattern
list_options ==
    (<<"a">> :> Alt(<<>>, <<"a">>, {}))
    @@ (<<"b">> :> Alt(<<>>, <<"b">>, {}))
    @@ (<<"d">> :> Alt(<<>>, <<"d">>, {}))
    @@ (<<"e">> :> Alt(<<>>, <<"e">>, {<<"x">>}))
    @@ (<<"f", "l", "e", "x">> :> Alt(<<>>, <<"-", "f", "l", "e", "x">>, {}))
    @@ (<<"g">> :> Alt(<<>>, <<"g">>, {}))
    @@ (<<"i">> :> Alt(<<>>, <<"i">>, {}))
    @@ (<<"n">> :> Alt(<<>>, <<"n">>, {}))
    @@ (<<"q">> :> Alt(<<>>, <<"q">>, {}))
    @@ (<<"z">> :> Alt(<<>>, <<"z">>, {}))

\* The chunks of an option given as a list of comma separated items:
\* chunk for item in input_data for chunk in item.split(",")
Chunks(input_data) ==
    UNION {Range(Split(item, ",")) : item \in Range(input_data)}

\* The value of one decimal digit
DigitValue(c) ==
    CASE c = "0" -> 0 [] c = "1" -> 1 [] c = "2" -> 2 [] c = "3" -> 3
      [] c = "4" -> 4 [] c = "5" -> 5 [] c = "6" -> 6 [] c = "7" -> 7
      [] c = "8" -> 8 [] c = "9" -> 9

\* int(chunk) for a chunk made of decimal digits
RECURSIVE DecValue(_)
DecValue(chunk) ==
    IF chunk = <<>> THEN 0
    ELSE 10 * DecValue(SubSeq(chunk, 1, Len(chunk) - 1))
             + DigitValue(chunk[Len(chunk)])

\* int(chunk) succeeds: decimal digits, or a "+" and decimal digits.  (The
\* chunks explored hold no blank and no underscore; a chunk with a "-" gives
\* a value below 1 and ends in errors like one int() rejects.)
IsInt(chunk) ==
    LET digits == IF chunk # <<>> /\ chunk[1] = "+" THEN Tail(chunk) ELSE chunk
    IN  digits # <<>> /\ \A i \in DOMAIN digits : IsDigit(digits[i])

\* int(chunk) when it succeeds
IntValue(chunk) ==
    IF chunk[1] = "+" THEN DecValue(Tail(chunk)) ELSE DecValue(chunk)

\* re.compile of the joined generations raises re.error ("nothing to
\* repeat") when an alternative starts with "+"
Compiles(chunks) == \A chunk \in chunks : chunk[1] # "+"

\* parse_instance_generations: [ok |-> FALSE, exc |-> e] stands for the
\* exception e; no list (None) is the empty list
parse_instance_generations(input_data) ==
    IF input_data = <<>>
    THEN [ok |-> TRUE, re |-> None]
    ELSE LET errors == {chunk \in Chunks(input_data) :
                            ~IsInt(chunk) \/ IntValue(chunk) < 1}
             retval == Chunks(input_data) \ errors
         IN  IF errors # {}
             THEN [ok |-> FALSE, exc |-> "ValueError"]
             ELSE IF ~Compiles(retval)
             THEN [ok |-> FALSE, exc |-> "re.error"]
             ELSE [ok |-> TRUE,
                   re |-> {Alt(<<>>, chunk, {}) : chunk \in retval}]

\* parse_instance_options
parse_instance_options(input_data) ==
    IF input_data = <<>>
    THEN [ok |-> TRUE, re |-> None]
    ELSE LET valid_options == {Lower(key) : key \in DOMAIN list_options}
             desired_options == {Lower(chunk) : chunk \in Chunks(input_data)}
             diff == desired_options \ valid_options
         IN  IF diff # {}
             THEN [ok |-> FALSE, exc |-> "ValueError"]
             ELSE [ok |-> TRUE,
                   re |-> {list_options[opt_key] : opt_key \in desired_options}]

\* parse_instance_series
parse_instance_series(input_data) ==
    IF input_data = <<>>
    THEN [ok |-> TRUE, re |-> None]
    ELSE LET valid_series == {Lower(key) : key \in DOMAIN list_series}
             desired_series == {Lower(chunk) : chunk \in Chunks(input_data)}
             diff == desired_series \ valid_series
         IN  IF diff # {}
             THEN [ok |-> FALSE, exc |-> "ValueError"]
             ELSE [ok |-> TRUE,
                   re |-> {list_series[series_key] :
                             series_key \in desired_series}]

\* parse_args, lines 241-260: the six patterns of the facet options, or the
\* exception of the first call that raises
facet_patterns(a) ==
    LET calls == <<parse_instance_series(a.exclude_instance_series),
                   parse_instance_series(a.include_instance_series),
                   parse_instance_generations(a.exclude_instance_generations),
                   parse_instance_generations(a.include_instance_generations),
                   parse_instance_options(a.exclude_instance_options),
                   parse_instance_options(a.include_instance_options)>>
        failed == {i \in DOMAIN calls : ~calls[i].ok}
    IN  IF failed # {}
        THEN [ok |-> FALSE,
              exc |-> calls[CHOOSE i \in failed : \A j \in failed : i <= j].exc]
        ELSE [ok |-> TRUE,
              re_exclude_instance_series |-> calls[1].re,
              re_include_instance_series |-> calls[2].re,
              re_exclude_instance_generations |-> calls[3].re,
              re_include_instance_generations |-> calls[4].re,
              re_exclude_instance_options |-> calls[5].re,
              re_include_instance_options |-> calls[6].re]

----------------------------------------------------------------------------
(* One identifier taken through the predicates of lib/filters.py, with the *)
(* patterns parse_args builds from the facet options.                       *)

\* Longest identifier built from the alphabet below.
MaxIdLen == 4

\* A lower-case letter, an upper-case letter, a digit and the two separators.
IdAlphabet == {"c", "M", "7", "-", "."}
BoundedIds == UNION {[1..n -> IdAlphabet] : n \in 0..MaxIdLen}

\* Identifiers of the dataset and of the tests.
C7iFlexLarge == <<"c", "7", "i", "-", "f", "l", "e", "x", ".", "l", "a", "r", "g", "e">>
U6tb1 == <<"u", "-", "6", "t", "b", "1", ".", "5", "6", "x", "l", "a", "r", "g", "e">>
Mac2M2pro == <<"m", "a", "c", "2", "-", "m", "2", "p", "r", "o", ".", "m", "e", "t", "a", "l">>
Hpc7g == <<"h", "p", "c", "7", "g", ".", "4", "x", "l", "a", "r", "g", "e">>
C12Large == <<"c", "1", "2", ".", "l", "a", "r", "g", "e">>
C7iMetal24xl == <<"c", "7", "i", ".", "m", "e", "t", "a", "l", "-", "2", "4", "x", "l">>

\* An identifier that holds "metal" before its separator only, and one whose
\* size holds it in another case.
Metal1Large == <<"m", "e", "t", "a", "l", "1", ".", "l", "a", "r", "g", "e">>
M5MetalUpper == <<"m", "5", ".", "M", "e", "t", "a", "l">>

\* One identifier of each series of the catalog: generation 1, any size.
SeriesIds == {key \o <<"1", ".", "x">> : key \in DOMAIN list_series}

Identifiers ==
    BoundedIds \cup {C7iFlexLarge, U6tb1, Mac2M2pro, Hpc7g, C12Large,
                     C7iMetal24xl, Metal1Large, M5MetalUpper}

\* The facet options: none given, and the combinations explored.
NoFacets ==
    [exclude_instance_series |-> <<>>, include_instance_series |-> <<>>,
     exclude_instance_generations |-> <<>>,
     include_instance_generations |-> <<>>,
     exclude_instance_options |-> <<>>, include_instance_options |-> <<>>]
FacetOptions ==
    {[NoFacets EXCEPT !.include_instance_generations = <<<<"7">>>>],
     [NoFacets EXCEPT !.include_instance_generations = <<<<"1">>>>],
     [NoFacets EXCEPT !.include_instance_generations = <<<<"2", ",", "7", "7">>>>],
     [NoFacets EXCEPT !.exclude_instance_generations = <<<<"7">>>>],
     [NoFacets EXCEPT !.include_instance_series = <<<<"c">>>>],
     [NoFacets EXCEPT !.exclude_instance_series = <<<<"M">>>>],
     [NoFacets EXCEPT !.include_instance_series = <<<<"c">>>>,
                      !.exclude_instance_series = <<<<"c">>, <<"m">>>>],
     [NoFacets EXCEPT !.include_instance_series = <<<<"x">>>>],
     [NoFacets EXCEPT !.exclude_instance_series = <<<<"x">>>>],
     [NoFacets EXCEPT !.include_instance_options = <<<<"f", "l", "e", "x">>>>],
     [NoFacets EXCEPT !.exclude_instance_options = <<<<"i">>>>],
     [NoFacets EXCEPT !.include_instance_series = <<<<"x">>>>,
                      !.include_instance_generations = <<<<"2">>>>,
                      !.include_instance_options = <<<<"z">>>>]}

\* The calls explored: every identifier with every pair of flags and with
\* every combination of facet options above, and every series of the catalog
\* against every single --include-instance-series key.
Call(id, exclude_metal, exclude_vm, facets) ==
    [instance_type |-> id, exclude_metal |-> exclude_metal,
     exclude_vm |-> exclude_vm, facets |-> facets]
Calls ==
    {Call(id, m, v, NoFacets) : id \in Identifiers, m \in BOOLEAN, v \in BOOLEAN}
        \cup {Call(id, FALSE, FALSE, f) : id \in Identifiers, f \in FacetOptions}
        \cup {Call(id, FALSE, FALSE,
                   [NoFacets EXCEPT !.include_instance_series = <<key>>]) :
                 id \in SeriesIds, key \in DOMAIN list_series}

InitClassify ==
    /\ call \in Calls
    /\ classified = [done |-> FALSE]

\* The four functions applied to the identifier; the patterns are those
\* parse_args stores in args.re_*.
Classify ==
    /\ ~classified.done
    /\ facet_patterns(call.facets).ok
    /\ LET re == facet_patterns(call.facets)
       IN  classified' =
             [done |-> TRUE,
              include |-> include_instance_type(call.instance_type,
                              call.exclude_metal, call.exclude_vm),
              parsed |-> parse_ec2_instance_type(call.instance_type),
              by_regex |-> filter_by_regex(call.instance_type,
                               re.re_exclude_instance_series,
                               re.re_include_instance_series),
              keep |-> filter_instance_type(call.instance_type,
                           re.re_exclude_instance_series,
                           re.re_include_instance_series,
                           re.re_exclude_instance_generations,
                           re.re_include_instance_generations,
                           re.re_exclude_instance_options,
                           re.re_include_instance_options)]
    /\ UNCHANGED <<call, dsVars, selVars, fltVars, srtVars, mainVars>>

----------------------------------------------------------------------------
(* Sorting and formatting: parse_sort_order, get_sorting_function and the  *)
(* EC2InstanceTypeFormatter of lib/formatters.py.                          *)

\* The characters of the identifiers sorted, in code point order.
CodeOrder ==
    <<"-", ".", "0", "1", "2", "3", "4", "5", "6", "7", "8", "9", "a", "b", "c", "d", "e", "f", "g",
      "h", "i", "j", "k", "l", "m", "n", "o", "p", "q", "r", "s", "t", "u", "v", "w", "x", "y", "z">>
Ord(c) == CHOOSE i \in DOMAIN CodeOrder : CodeOrder[i] = c

\* a < b for two Python strings
StrLess(a, b) ==
    \E i \in 1..(Len(b)) :
        /\ \A j \in 1..(i - 1) : j <= Len(a) /\ a[j] = b[j]
        /\ \/ i = Len(a) + 1
           \/ i <= Len(a) /\ Ord(a[i]) < Ord(b[i])

\* parse_sort_order, the two lookup tables
order_lookup == (<<"a", "s", "c">> :> 1) @@ (<<"d", "e", "s", "c">> :> -1)
column_lookup ==
    (<<"i", "n", "s", "t", "a", "n", "c", "e", "_", "t", "y", "p", "e">> :> "instance_type")
    @@ (<<"v", "c", "p", "u", "s">> :> "vcpus")
    @@ (<<"m", "e", "m", "_", "g", "b">> :> "mem_gb")
    @@ (<<"e", "m", "r">> :> "emr")
    @@ (<<"s", "a", "v", "i", "n", "g", "s">> :> "savings")
    @@ (<<"i", "n", "t", "e", "r", "r", "u", "p", "t", "s">> :> "inter_max")

\* chunk.split(":", maxsplit=1) for a chunk that holds a ":"
SplitOnce(chunk, sep) ==
    LET i == CHOOSE p \in DOMAIN chunk :
                 chunk[p] = sep /\ \A q \in 1..(p - 1) : chunk[q] # sep
    IN  <<SubSeq(chunk, 1, i - 1), SubSeq(chunk, i + 1, Len(chunk))>>

\* retval[column_name] = value on a dict kept as its items in insertion order
DictSet(items, key, value) ==
    IF \E i \in DOMAIN items : items[i][1] = key
    THEN [i \in DOMAIN items |->
             IF items[i][1] = key THEN <<key, value>> ELSE items[i]]
    ELSE Append(items, <<key, value>>)

\* parse_sort_order, the loop over input_data.split(",") from chunk i on
RECURSIVE parse_sort_loop(_, _, _)
parse_sort_loop(chunks, i, retval) ==
    IF i > Len(chunks)
    THEN [ok |-> TRUE, order |-> retval]
    ELSE IF ~(\E p \in DOMAIN chunks[i] : chunks[i][p] = ":")
    THEN [ok |-> FALSE]
    ELSE LET column_name == Lower(SplitOnce(chunks[i], ":")[1])
             order == Lower(SplitOnce(chunks[i], ":")[2])
         IN  IF column_name \notin DOMAIN column_lookup
             THEN [ok |-> FALSE]
             ELSE IF order \notin DOMAIN order_lookup
             THEN [ok |-> FALSE]
             ELSE parse_sort_loop(chunks, i + 1,
                      DictSet(retval, column_lookup[column_name],
                              order_lookup[order]))

\* parse_sort_order: [ok |-> FALSE] stands for ValueError
parse_sort_order(input_data) ==
    parse_sort_loop(Split(input_data, ","), 1, <<>>)

\* value * getattr(instance_type, key): Python multiplies an int by an int
\* or a bool arithmetically, and repeats a str (no times at all for -1).
py_mul(value, instance_type, key) ==
    IF key = "instance_type"
    THEN [str |-> TRUE,
          v |-> IF value >= 1 THEN instance_type[key] ELSE <<>>]
    ELSE IF key = "emr"
    THEN [str |-> FALSE, v |-> value * (IF instance_type[key] THEN 1 ELSE 0)]
    ELSE [str |-> FALSE, v |-> value * instance_type[key]]

\* get_sorting_function: the tuple sorter() returns
sorter(sort_items, instance_type) ==
    [i \in DOMAIN sort_items |->
        py_mul(sort_items[i][2], instance_type, sort_items[i][1])]

\* k1 < k2 for two tuples of the same shape
TupleLess(k1, k2) ==
    \E i \in DOMAIN k1 :
        /\ \A j \in 1..(i - 1) : k1[j] = k2[j]
        /\ IF k1[i].str THEN StrLess(k1[i].v, k2[i].v) ELSE k1[i].v < k2[i].v

\* sorted() that is not given the key function: the values in dict order.
sorted_unsorted(values, sort_items) == values

\* sorted(values, key=sorter): a stable sort, built by inserting each value
\* behind the values whose key is not greater
RECURSIVE sorted(_, _)
sorted(values, sort_items) ==
    IF values = <<>>
    THEN <<>>
    ELSE LET x == values[Len(values)]
             front == sorted(SubSeq(values, 1, Len(values) - 1), sort_items)
             n == Cardinality({i \in DOMAIN front :
                      ~TupleLess(sorter(sort_items, x),
                                 sorter(sort_items, front[i]))})
         IN  SubSeq(front, 1, n) \o <<x>> \o SubSeq(front, n + 1, Len(front))

\* EC2InstanceType.print_dict
print_dict(r) ==
    [instance_type |-> r.instance_type, vcpus |-> r.vcpus,
     mem_gb |-> r.mem_gb, emr |-> r.emr, savings |-> r.savings,
     interrupts |-> r.inter_label]

\* Largest number of selected records.
MaxResults == 3

\* The records sorted: the three types of the run through main of the tests,
\* and one that ties with another on savings and on the interruption bound.
T2Nano == <<"t", "2", ".", "n", "a", "n", "o">>
T2Large == <<"t", "2", ".", "l", "a", "r", "g", "e">>
EC2InstanceTypes ==
    {[instance_type |-> T3Nano, vcpus |-> 0, mem_gb |-> 0, emr |-> TRUE,
      savings |-> 80, inter_label |-> "5-10%", inter_max |-> 11],
     [instance_type |-> T2Nano, vcpus |-> 0, mem_gb |-> 0, emr |-> TRUE,
      savings |-> 76, inter_label |-> "<5%", inter_max |-> 5],
     [instance_type |-> T2Large, vcpus |-> 2, mem_gb |-> 8, emr |-> TRUE,
      savings |-> 75, inter_label |-> "<5%", inter_max |-> 5],
     [instance_type |-> M5Metal, vcpus |-> 96, mem_gb |-> 384, emr |-> FALSE,
      savings |-> 76, inter_label |-> "<5%", inter_max |-> 5]}

\* The results dict as its values in insertion order: one record per key
ResultLists ==
    {r \in UNION {[1..n -> EC2InstanceTypes] : n \in 0..MaxResults} :
        \A i, j \in DOMAIN r : i # j => r[i].instance_type # r[j].instance_type}

\* Values of --sort-order that parse_sort_order accepts: the default, every
\* column in each direction, and some with two columns.
DefaultSortOrder == <<"i", "n", "t", "e", "r", "r", "u", "p", "t", "s", ":", "a", "s", "c", ",", "s", "a", "v", "i", "n", "g", "s", ":", "d", "e", "s", "c">>
SortOrders ==
    {DefaultSortOrder, <<"S", "A", "V", "I", "N", "G", "S", ":", "D", "e", "s", "c", ",", "i", "n", "s", "t", "a", "n", "c", "e", "_", "t", "y", "p", "e", ":", "a", "s", "c">>, <<"s", "a", "v", "i", "n", "g", "s", ":", "a", "s", "c", ",", "s", "a", "v", "i", "n", "g", "s", ":", "d", "e", "s", "c">>, <<"e", "m", "r", ":", "d", "e", "s", "c", ",", "v", "c", "p", "u", "s", ":", "a", "s", "c">>}
        \cup {c \o <<":">> \o o : c \in DOMAIN column_lookup,
                                  o \in DOMAIN order_lookup}

InitSort ==
    /\ fmt_results \in ResultLists
    /\ sort_order \in SortOrders
    /\ output = [kind |-> "none"]

\* main, lines 156-162: formatter.fmt(results) with the sorter built from
\* args.parsed_sort_order; every output format walks
\* sorted(results.values(), key=self.sorting_fn)
Format ==
    /\ output.kind = "none"
    /\ parse_sort_order(sort_order).ok
    /\ LET sort_items == parse_sort_order(sort_order).order
           rows == sorted(fmt_results, sort_items)
       IN  output' = [kind |-> "ok",
                      rows |-> [i \in DOMAIN rows |-> print_dict(rows[i])]]
    /\ UNCHANGED <<fmt_results, sort_order, dsVars, selVars, fltVars, clsVars,
                   mainVars>>

----------------------------------------------------------------------------
(* main: the command line is parsed and validated, then the dataset is     *)
(* synchronised by get_dataset.                                            *)

\* parse_args, lines 234-264: the Namespace it returns, or the exception
\* raised inside its try block
parse_args(a) ==
    LET parsed_sort_order == parse_sort_order(a.sort_order)
        re == facet_patterns(a.facets)
    IN  IF ~parsed_sort_order.ok
        THEN [ok |-> FALSE, exc |-> "ValueError"]
        ELSE IF parsed_sort_order.order = <<>>
        THEN [ok |-> FALSE, exc |-> "ValueError"]
        ELSE IF ~re.ok
        THEN [ok |-> FALSE, exc |-> re.exc]
        ELSE [ok |-> TRUE, parsed_sort_order |-> parsed_sort_order.order,
              re |-> re]

\* The regions and operating systems named on the command line or in the
\* dataset, each list in the order sorted() puts them in.
RegionNames == <<"ap-south-1", "eu-west-1", "us-east-1">>
OsNames == <<"Linux", "Windows">>

\* Command lines explored: the default sort order and three it rejects, each
\* with no facet option; the default sort order with facet options that are
\* accepted, rejected, or accepted and then not compilable, all of these with
\* --region us-east-1; and, with the defaults, --list-regions (--region is
\* then None, here ""), --region with the empty string, with a region the
\* dataset lacks, and with --os Windows in two regions that have Linux.
CommandLines ==
    {[sort_order |-> s, facets |-> NoFacets, list_regions |-> FALSE,
      region |-> "us-east-1", os |-> "Linux"] :
        s \in {DefaultSortOrder, <<"s", "a", "v", "i", "n", "g", "s">>, <<"p", "r", "i", "c", "e", ":", "a", "s", "c">>, <<"s", "a", "v", "i", "n", "g", "s", ":", "u", "p">>}}
    \cup
    {[sort_order |-> DefaultSortOrder, facets |-> f, list_regions |-> FALSE,
      region |-> "us-east-1", os |-> "Linux"] :
        f \in {[NoFacets EXCEPT !.include_instance_generations = <<<<"7">>>>],
               [NoFacets EXCEPT !.include_instance_generations = <<<<"0">>>>],
               [NoFacets EXCEPT !.exclude_instance_generations = <<<<"7", ",", "x">>>>],
               [NoFacets EXCEPT !.include_instance_generations = <<<<"+", "7">>>>],
               [NoFacets EXCEPT !.exclude_instance_series = <<<<"q">>>>],
               [NoFacets EXCEPT !.include_instance_options = <<<<"k">>>>]}}
    \cup
    {[sort_order |-> DefaultSortOrder, facets |-> NoFacets,
      list_regions |-> a[1], region |-> a[2], os |-> a[3]] :
        a \in {<<TRUE, "", "Linux">>, <<FALSE, "", "Linux">>,
                <<FALSE, "eu-west-1", "Linux">>,
                <<FALSE, "ap-south-1", "Windows">>,
                <<FALSE, "us-east-1", "Windows">>}}

\* The cache-state file: the three options of section spot_advisor, each ""
\* when the file is missing (conf.new)
ConfigFiles ==
    [data_checksum : 0..StaleChecksum, http_etag : StoredETags,
     http_last_modified : StoredLastModified]

InitMain ==
    /\ argv \in CommandLines
    /\ main_pc = "parse_args"
    /\ exit_code = -1
    /\ logged = <<>>
    /\ config \in ConfigFiles
    /\ \* every cache state with the default options of --region us-east-1,
       \* a first run (no cache state) with every other command line
       (argv.sort_order # DefaultSortOrder \/ argv.facets # NoFacets
          \/ argv.list_regions \/ argv.region # "us-east-1" \/ argv.os # "Linux")
           => config = [data_checksum |-> NoChecksum, http_etag |-> "",
                        http_last_modified |-> ""]
    /\ config_writes = 0
    /\ called = <<>>
    /\ stdout = [kind |-> "none"]
    /\ data = 0
    /\ data_checksum = NoChecksum
    /\ http_etag = ""
    /\ http_last_modified = ""
    /\ file \in Files
    /\ pc = "idle"
    /\ is_retry = FALSE
    /\ raised = ""
    /\ requests = <<>>
    /\ responses = <<>>
    /\ writes = 0
    /\ start = [data |-> data, data_checksum |-> data_checksum,
                http_etag |-> http_etag,
                http_last_modified |-> http_last_modified, file |-> file]

\* parse_args that leaves the validation of the options to a later step.
ParseArgsUnvalidated ==
    /\ main_pc = "parse_args"
    /\ main_pc' = "get_dataset"
    /\ UNCHANGED <<argv, exit_code, logged, config, config_writes, called,
                   stdout>>
    /\ UNCHANGED <<dsVars, selVars, fltVars, clsVars, srtVars>>

\* args = parse_args(DATA_DIR, DATASET_URL), line 115, returning
ParseArgs ==
    /\ main_pc = "parse_args"
    /\ parse_args(argv).ok
    /\ main_pc' = "get_dataset"
    /\ UNCHANGED <<argv, exit_code, logged, config, config_writes, called,
                   stdout>>
    /\ UNCHANGED <<dsVars, selVars, fltVars, clsVars, srtVars>>

\* parse_args, lines 261-262: ValueError goes to parser.error, which prints
\* the message and exits with status 2
ParseArgsError ==
    /\ main_pc = "parse_args"
    /\ ~parse_args(argv).ok
    /\ parse_args(argv).exc = "ValueError"
    /\ main_pc' = "exit"
    /\ exit_code' = 2
    /\ UNCHANGED <<argv, logged, config, config_writes, called, stdout>>
    /\ UNCHANGED <<dsVars, selVars, fltVars, clsVars, srtVars>>

\* parse_args raising anything but ValueError: nothing catches it, the
\* interpreter prints the traceback and exits with status 1
ParseArgsCrash ==
    /\ main_pc = "parse_args"
    /\ ~parse_args(argv).ok
    /\ parse_args(argv).exc # "ValueError"
    /\ main_pc' = "crashed"
    /\ exit_code' = 1
    /\ UNCHANGED <<argv, logged, config, config_writes, called, stdout>>
    /\ UNCHANGED <<dsVars, selVars, fltVars, clsVars, srtVars>>

\* get_dataset, lines 55-64: the cache state is read and update() is called
GetDataset ==
    /\ main_pc = "get_dataset"
    /\ main_pc' = "update"
    /\ data_checksum' = config.data_checksum
    /\ http_etag' = config.http_etag
    /\ http_last_modified' = config.http_last_modified
    /\ pc' = "start"
    /\ start' = [data |-> data, data_checksum |-> config.data_checksum,
                 http_etag |-> config.http_etag,
                 http_last_modified |-> config.http_last_modified,
                 file |-> file]
    /\ UNCHANGED <<data, file, is_retry, raised, requests, responses, writes>>
    /\ UNCHANGED <<argv, exit_code, logged, config, config_writes, called,
                   stdout>>
    /\ UNCHANGED <<selVars, fltVars, clsVars, srtVars>>

\* The characters of the token values explored
TokenText(value) ==
    CASE value = "" -> <<>>
      [] value = "e1" -> <<"e", "1">>
      [] value = "e2" -> <<"e", "2">>
      [] value = "e3" -> <<"e", "3">>
      [] value = "e%" -> <<"e", "%">>
      [] value = "m1" -> <<"m", "1">>
      [] value = "m2" -> <<"m", "2">>
      [] value = "m3" -> <<"m", "3">>

\* value.replace("%%", "")
RECURSIVE RemovePairs(_)
RemovePairs(s) ==
    IF s = <<>> THEN <<>>
    ELSE IF Len(s) >= 2 /\ s[1] = "%" /\ s[2] = "%"
    THEN RemovePairs(SubSeq(s, 3, Len(s)))
    ELSE <<s[1]>> \o RemovePairs(Tail(s))

\* _KEYCRE.sub("", value): every %(name)s removed
RECURSIVE RemoveKeys(_)
RemoveKeys(s) ==
    IF s = <<>> THEN <<>>
    ELSE LET n == Len(s)
             close == {j \in 4..(n - 1) :
                         /\ s[j] = ")" /\ s[j + 1] = "s"
                         /\ \A k \in 3..(j - 1) : s[k] # ")"}
         IN  IF n >= 5 /\ s[1] = "%" /\ s[2] = "(" /\ close # {}
             THEN RemoveKeys(SubSeq(s, (CHOOSE j \in close : TRUE) + 2, n))
             ELSE <<s[1]>> \o RemoveKeys(Tail(s))

\* ConfigParser.set -> BasicInterpolation.before_set: TRUE when the value is
\* accepted, FALSE when it raises ValueError (invalid interpolation syntax)
before_set(value) ==
    LET tmp_value == RemoveKeys(RemovePairs(TokenText(value)))
    IN  \A i \in DOMAIN tmp_value : tmp_value[i] # "%"

\* get_dataset, lines 66-74: the three config.set calls all accept their
\* value; str(data_checksum) is a hexadecimal digest or empty, which has no
\* percent sign
ConfigSetAccepts == before_set(http_etag) /\ before_set(http_last_modified)

\* get_dataset, lines 66-76: update() returned, the cache state is written
WriteConfig ==
    /\ main_pc = "update"
    /\ pc = "done"
    /\ ConfigSetAccepts
    /\ config' = [data_checksum |-> data_checksum, http_etag |-> http_etag,
                  http_last_modified |-> http_last_modified]
    /\ config_writes' = config_writes + 1
    /\ main_pc' = "dispatch"
    /\ UNCHANGED <<argv, exit_code, logged, called, stdout>>
    /\ UNCHANGED <<dsVars, selVars, fltVars, clsVars, srtVars>>

\* get_dataset, line 75: conf.write cannot open the file (OSError); main,
\* lines 127-133
WriteConfigFails ==
    /\ main_pc = "update"
    /\ pc = "done"
    /\ ConfigSetAccepts
    /\ logged' = Append(logged, "Failed to get AWS Spot Advisor data")
    /\ main_pc' = "exit"
    /\ exit_code' = 1
    /\ UNCHANGED <<argv, config, config_writes, called, stdout>>
    /\ UNCHANGED <<dsVars, selVars, fltVars, clsVars, srtVars>>

\* get_dataset, lines 66-74: config.set raises ValueError, which the except
\* clause of main does not name: the interpreter prints the traceback and
\* exits with status 1; the cache-state file is not written
WriteConfigRejected ==
    /\ main_pc = "update"
    /\ pc = "done"
    /\ ~ConfigSetAccepts
    /\ main_pc' = "crashed"
    /\ exit_code' = 1
    /\ UNCHANGED <<argv, logged, config, config_writes, called, stdout>>
    /\ UNCHANGED <<dsVars, selVars, fltVars, clsVars, srtVars>>

\* The exceptions of update() that are an OSError: requests' exceptions
\* derive from IOError, PermissionError from OSError.
IsOSError(exc) == exc \in {"ConnectionError", "PermissionError", "JSONDecodeError"}

\* The except clause of main that saves the DataSet's fields to the
\* cache-state file before it exits.
DatasetErrorCaughtSaves ==
    /\ main_pc = "update"
    /\ pc = "raised"
    /\ IsOSError(raised)
    /\ config' = [data_checksum |-> data_checksum, http_etag |-> http_etag,
                  http_last_modified |-> http_last_modified]
    /\ config_writes' = config_writes + 1
    /\ logged' = Append(logged, "Failed to get AWS Spot Advisor data")
    /\ main_pc' = "exit"
    /\ exit_code' = 1
    /\ UNCHANGED <<argv, called, stdout>>
    /\ UNCHANGED <<dsVars, selVars, fltVars, clsVars, srtVars>>

\* main, lines 127-133: except (BaseHTTPError, OSError)
DatasetErrorCaught ==
    /\ main_pc = "update"
    /\ pc = "raised"
    /\ IsOSError(raised)
    /\ logged' = Append(logged, "Failed to get AWS Spot Advisor data")
    /\ main_pc' = "exit"
    /\ exit_code' = 1
    /\ UNCHANGED <<argv, config, config_writes, called, stdout>>
    /\ UNCHANGED <<dsVars, selVars, fltVars, clsVars, srtVars>>

\* update() raised what the except clause of main does not name: the
\* interpreter prints the traceback and exits with status 1
DatasetErrorUncaught ==
    /\ main_pc = "update"
    /\ pc = "raised"
    /\ ~IsOSError(raised)
    /\ main_pc' = "crashed"
    /\ exit_code' = 1
    /\ UNCHANGED <<argv, logged, config, config_writes, called, stdout>>
    /\ UNCHANGED <<dsVars, selVars, fltVars, clsVars, srtVars>>

----------------------------------------------------------------------------
(* main after get_dataset: the action given on the command line.            *)

\* The members of a set in the order a list of all names gives: sorted() of
\* the set when the list is sorted
RECURSIVE SortedNames(_, _)
SortedNames(names, S) ==
    IF names = <<>> THEN <<>>
    ELSE IF Head(names) \in S THEN <<Head(names)>> \o SortedNames(Tail(names), S)
    ELSE SortedNames(Tail(names), S)

\* The parsed dataset documents.  Document 1 has us-east-1 with both
\* operating systems and ap-south-1 with Linux only; the Windows table of
\* us-east-1 names an interruption range the document does not list.
\* Document 2 has no "spot_advisor" key; any further document has the key
\* with no region under it.
Document(doc) ==
    IF doc = 1
    THEN [ranges |-> <<[index |-> 0, label |-> "<5%", max |-> 5],
                       [index |-> 1, label |-> "5-10%", max |-> 11]>>,
          instance_types |-> [id \in {T3Nano, M5Metal, X1e} |-> TypeInfo(id)],
          spot_advisor |->
             [region \in {"us-east-1", "ap-south-1"} |->
                IF region = "us-east-1"
                THEN [os \in {"Linux", "Windows"} |->
                        IF os = "Linux"
                        THEN [id \in {T3Nano, M5Metal} |->
                                IF id = T3Nano THEN [s |-> 80, r |-> 1]
                                ELSE [s |-> 76, r |-> 0]]
                        ELSE [id \in {T3Nano} |-> [s |-> 76, r |-> 2]]]
                ELSE [os \in {"Linux"} |->
                        [id \in {T3Nano} |-> [s |-> 75, r |-> 0]]]]]
    ELSE IF doc = 2
    THEN [ranges |-> <<>>, instance_types |-> <<>>]
    ELSE [ranges |-> <<>>, instance_types |-> <<>>, spot_advisor |-> <<>>]

\* The keys of a mapping of the documents in the order the text has them
DocumentOrder(S) == SortedNames(<<X1e, T3Nano, M5Metal>>, S)

\* DataSet.has_region
has_region(d, region) ==
    /\ "spot_advisor" \in DOMAIN d
    /\ region \in DOMAIN d.spot_advisor

\* DataSet.has_os
has_os(d, region, os_name) ==
    /\ "spot_advisor" \in DOMAIN d
    /\ region \in DOMAIN d.spot_advisor
    /\ os_name \in DOMAIN d.spot_advisor[region]

\* The Namespace select_data is handed: the region and OS of the command
\* line and parse_args' defaults for the criteria.
MainArgs(a) ==
    [region |-> a.region, os |-> a.os,
     savings_min |-> -1, savings_max |-> 101,
     inters_min |-> -1, inters_max |-> 101,
     vcpu_min |-> -1, vcpu_max |-> 65535,
     mem_min |-> -1, mem_max |-> 65535,
     emr_only |-> FALSE, exclude_metal |-> FALSE, exclude_vm |-> FALSE]

\* The values of a results dict in its insertion order
ResultValues(r) == [i \in DOMAIN r.keys |-> r.results[r.keys[i]]]

\* main, lines 135-136: list_regions(dataset, args.output_format)
ListRegions ==
    /\ main_pc = "dispatch"
    /\ argv.list_regions
    /\ "spot_advisor" \in DOMAIN Document(data)
    /\ called' = Append(called, "list_regions")
    /\ LET advisor == Document(data).spot_advisor
           regions == SortedNames(RegionNames, DOMAIN advisor)
       IN  stdout' = [kind |-> "regions",
                      rows |-> [i \in DOMAIN regions |->
                                  [region |-> regions[i],
                                   operating_systems |->
                                      SortedNames(OsNames, DOMAIN advisor[regions[i]])]]]
    /\ main_pc' = "exit"
    /\ exit_code' = 0
    /\ UNCHANGED <<argv, logged, config, config_writes>>
    /\ UNCHANGED <<dsVars, selVars, fltVars, clsVars, srtVars>>

\* list_regions, line 103: dataset.data["spot_advisor"] raises KeyError, which
\* nothing catches
ListRegionsCrash ==
    /\ main_pc = "dispatch"
    /\ argv.list_regions
    /\ "spot_advisor" \notin DOMAIN Document(data)
    /\ called' = Append(called, "list_regions")
    /\ main_pc' = "crashed"
    /\ exit_code' = 1
    /\ UNCHANGED <<argv, logged, config, config_writes, stdout>>
    /\ UNCHANGED <<dsVars, selVars, fltVars, clsVars, srtVars>>

\* The region check that looks at the operating system as well before it
\* gives up.
RegionMissingLate ==
    /\ main_pc = "dispatch"
    /\ ~argv.list_regions
    /\ argv.region # ""
    /\ ~has_region(Document(data), argv.region)
    /\ called' = called \o <<"has_region", "has_os">>
    /\ logged' = Append(logged, "Region not found in data")
    /\ main_pc' = "exit"
    /\ exit_code' = 1
    /\ UNCHANGED <<argv, config, config_writes, stdout>>
    /\ UNCHANGED <<dsVars, selVars, fltVars, clsVars, srtVars>>

\* main, lines 137-140: the region is not in the dataset
RegionMissing ==
    /\ main_pc = "dispatch"
    /\ ~argv.list_regions
    /\ argv.region # ""
    /\ ~has_region(Document(data), argv.region)
    /\ called' = Append(called, "has_region")
    /\ logged' = Append(logged, "Region not found in data")
    /\ main_pc' = "exit"
    /\ exit_code' = 1
    /\ UNCHANGED <<argv, config, config_writes, stdout>>
    /\ UNCHANGED <<dsVars, selVars, fltVars, clsVars, srtVars>>

\* main, lines 142-148: the region has no such operating system
OsMissing ==
    /\ main_pc = "dispatch"
    /\ ~argv.list_regions
    /\ argv.region # ""
    /\ has_region(Document(data), argv.region)
    /\ ~has_os(Document(data), argv.region, argv.os)
    /\ called' = called \o <<"has_region", "has_os">>
    /\ logged' = Append(logged, "OS is not available in region")
    /\ main_pc' = "exit"
    /\ exit_code' = 1
    /\ UNCHANGED <<argv, config, config_writes, stdout>>
    /\ UNCHANGED <<dsVars, selVars, fltVars, clsVars, srtVars>>

\* main, lines 150-162: select_data returns and the formatter prints the
\* records, sorted by args.parsed_sort_order, which parse_args has set to
\* parse_sort_order(args.sort_order); the document's mappings are iterated in
\* the order of its text, DocumentOrder
Report ==
    /\ main_pc = "dispatch"
    /\ ~argv.list_regions
    /\ argv.region # ""
    /\ has_region(Document(data), argv.region)
    /\ has_os(Document(data), argv.region, argv.os)
    /\ \E d \in {Document(data)} :
         \E results \in {select_data_in_order(d, MainArgs(argv),
                             DocumentOrder(DOMAIN d.spot_advisor[argv.region][argv.os]),
                             DocumentOrder(DOMAIN d.instance_types))} :
           /\ results.kind = "ok"
           /\ \E rows \in {sorted(ResultValues(results),
                                  parse_sort_order(argv.sort_order).order)} :
                stdout' = [kind |-> "report",
                           rows |-> [i \in DOMAIN rows |-> print_dict(rows[i])]]
    /\ called' = called \o <<"has_region", "has_os", "select_data", "fmt">>
    /\ main_pc' = "exit"
    /\ exit_code' = 0
    /\ UNCHANGED <<argv, logged, config, config_writes>>
    /\ UNCHANGED <<dsVars, selVars, fltVars, clsVars, srtVars>>

\* main, line 151: select_data raises what is no DataProcessingException
\* (KeyError at line 410, ValueError at lines 420 and 446): nothing catches it
SelectDataCrash ==
    /\ main_pc = "dispatch"
    /\ ~argv.list_regions
    /\ argv.region # ""
    /\ has_region(Document(data), argv.region)
    /\ has_os(Document(data), argv.region, argv.os)
    /\ select_data(Document(data), MainArgs(argv)).kind # "ok"
    /\ called' = called \o <<"has_region", "has_os", "select_data">>
    /\ main_pc' = "crashed"
    /\ exit_code' = 1
    /\ UNCHANGED <<argv, logged, config, config_writes, stdout>>
    /\ UNCHANGED <<dsVars, selVars, fltVars, clsVars, srtVars>>

\* main, lines 163-165: --region with an empty value
NoAction ==
    /\ main_pc = "dispatch"
    /\ ~argv.list_regions
    /\ argv.region = ""
    /\ logged' = Append(logged, "No action given")
    /\ main_pc' = "exit"
    /\ exit_code' = 1
    /\ UNCHANGED <<argv, config, config_writes, called, stdout>>
    /\ UNCHANGED <<dsVars, selVars, fltVars, clsVars, srtVars>>

----------------------------------------------------------------------------
(* The parts of the model, each idle while another is explored.             *)

IdleDataSet ==
    /\ data = 0
    /\ data_checksum = NoChecksum
    /\ http_etag = ""
    /\ http_last_modified = ""
    /\ file = NoFile
    /\ pc = "idle"
    /\ is_retry = FALSE
    /\ raised = ""
    /\ requests = <<>>
    /\ responses = <<>>
    /\ writes = 0
    /\ start = [data |-> data, data_checksum |-> data_checksum,
                http_etag |-> http_etag,
                http_last_modified |-> http_last_modified, file |-> file]

IdleSelect ==
    /\ dataset = [ranges |-> <<>>]
    /\ args = [region |-> ""]
    /\ selected = [kind |-> "none"]
    /\ again = [kind |-> "none"]

IdleFilter ==
    /\ probe = [value |-> 0, min |-> 0, max |-> 0]
    /\ verdict = [done |-> FALSE]

IdleClassify ==
    /\ call = [instance_type |-> <<>>]
    /\ classified = [done |-> FALSE]

IdleSort ==
    /\ fmt_results = <<>>
    /\ sort_order = <<>>
    /\ output = [kind |-> "none"]

IdleMain ==
    /\ argv = [sort_order |-> <<>>]
    /\ main_pc = "idle"
    /\ exit_code = -1
    /\ logged = <<>>
    /\ config = [data_checksum |-> NoChecksum, http_etag |-> "",
                 http_last_modified |-> ""]
    /\ config_writes = 0
    /\ called = <<>>
    /\ stdout = [kind |-> "none"]

Init ==
    InitDataSet /\ IdleSelect /\ IdleFilter /\ IdleClassify /\ IdleSort /\ IdleMain

Next == NextDataSet

\* DataSet.update from every cache state, against every remote behaviour.
Spec == Init /\ [][Next]_vars

\* The same calls when no step is postponed forever: requests.get is given
\* timeout=HTTP_TIMEOUT, so a response or an exception follows each request,
\* and everything else update() does is a finite computation.
SpecTerm == Init /\ [][Next]_vars /\ WF_vars(Next)

\* The range predicates on every value and every pair of bounds above.
InitFlt ==
    IdleDataSet /\ IdleSelect /\ InitFilter /\ IdleClassify /\ IdleSort /\ IdleMain
NextFlt == ApplyFilters
SpecFilter == InitFlt /\ [][NextFlt]_vars

\* select_data on every dataset and every argument set above.
InitSel ==
    IdleDataSet /\ InitSelect /\ IdleFilter /\ IdleClassify /\ IdleSort /\ IdleMain
NextSel == SelectData \/ SelectDataAgain
SpecSelect == InitSel /\ [][NextSel]_vars

\* The predicates on identifiers, on every call above.
InitCls ==
    IdleDataSet /\ IdleSelect /\ IdleFilter /\ InitClassify /\ IdleSort /\ IdleMain
NextCls == Classify
SpecClassify == InitCls /\ [][NextCls]_vars

\* The formatter on every list of records and every sort order above.
InitSrt ==
    IdleDataSet /\ IdleSelect /\ IdleFilter /\ IdleClassify /\ InitSort /\ IdleMain
NextSrt == Format
SpecSort == InitSrt /\ [][NextSrt]_vars

\* main from every command line, cache state and local file above, against
\* every remote behaviour.
InitRun == InitMain /\ IdleSelect /\ IdleFilter /\ IdleClassify /\ IdleSort
NextRun ==
    \/ ParseArgs
    \/ ParseArgsError
    \/ ParseArgsCrash
    \/ GetDataset
    \/ Update
    \/ GetDataRaises
    \/ Rsp304Load
    \/ Rsp304Denied
    \/ Rsp304Retry
    \/ Rsp304Loop
    \/ Rsp200
    \/ RspOther
    \/ WriteConfig
    \/ WriteConfigFails
    \/ WriteConfigRejected
    \/ DatasetErrorCaught
    \/ DatasetErrorUncaught
    \/ ListRegions
    \/ ListRegionsCrash
    \/ RegionMissing
    \/ OsMissing
    \/ Report
    \/ SelectDataCrash
    \/ NoAction
SpecMain == InitRun /\ [][NextRun]_vars

----------------------------------------------------------------------------
(* Properties of the dataset cache.                                         *)

Last(s) == s[Len(s)]

\* The names of the conditional headers of a request.
Conditional(req) ==
    {h \in req : h[1] \in {"if-none-match", "if-modified-since"}}

\* The value a header list gives for a lower-case name, "" when absent.
HeaderValue(headers, name) ==
    IF \E i \in DOMAIN headers : Lower(headers[i][1]) = name
    THEN headers[CHOOSE i \in DOMAIN headers : Lower(headers[i][1]) = name][2]
    ELSE ""

\* The stored checksum was non-empty and the digest of the file at the call.
StartValid ==
    /\ start.data_checksum # NoChecksum
    /\ start.file.st = "ok"
    /\ Sha256(start.file.text) = start.data_checksum

\* The remote has answered 304 to every request it was sent so far.
Always304 ==
    /\ raised # "ConnectionError"
    /\ \A i \in DOMAIN responses : responses[i].status = 304

\* C1: started with a missing local file and a non-empty stored checksum,
\* against a remote that answers 304 to every request, update() issues its
\* second request on the first 304, raises RecursionError on the second 304
\* with exactly two requests issued, never issues a third request and never
\* returns normally.
C1_Loop304 ==
    (start.file.st = "missing" /\ start.data_checksum # NoChecksum /\ Always304)
        => /\ Len(requests) <= 2
           /\ pc # "done"
           /\ Len(responses) = 1 => (pc = "wait" /\ Len(requests) = 2)
           /\ Len(responses) = 2 => (pc = "raised" /\ raised = "RecursionError")
           /\ pc = "raised" => (raised = "RecursionError" /\ Len(requests) = 2)

C1_Witness ==
    /\ start.file.st = "missing"
    /\ start.data_checksum # NoChecksum
    /\ Always304
    /\ pc = "raised"
    /\ raised = "RecursionError"
    /\ Len(requests) = 2

\* C2: whenever update() returns, the stored http_etag and http_last_modified
\* are the ETag and Last-Modified values of the last response received in the
\* call, the one that delivered the dataset; an absent header leaves "".
C2_TokensOfLastResponse ==
    pc = "done"
        => /\ http_etag = HeaderValue(Last(responses).headers, HdrEtagLower)
           /\ http_last_modified
                = HeaderValue(Last(responses).headers, Lower(HdrLastModified))

\* C3: with a local file whose digest is the non-empty stored checksum and a
\* remote that answers 304, update() issues exactly one request, carrying
\* if-none-match = stored http_etag and if-modified-since = stored
\* http_last_modified, each only when the stored token is non-empty, and
\* returns with the in-memory dataset equal to the local file's document.
C3_Revalidate ==
    (StartValid /\ responses # <<>> /\ responses[1].status = 304)
        => /\ pc = "done"
           /\ Len(requests) = 1
           /\ Len(responses) = 1
           /\ Conditional(requests[1])
                = {h \in {<<"if-none-match", start.http_etag>>,
                          <<"if-modified-since", start.http_last_modified>>} :
                     h[2] # ""}
           /\ file = start.file
           /\ data = json_load(file.text)

C3_Witness ==
    /\ StartValid
    /\ start.http_etag # ""
    /\ start.http_last_modified # ""
    /\ pc = "done"
    /\ responses[1].status = 304
    /\ data = start.file.text.doc

\* C4: when the stored checksum is empty, or the local file is missing or
\* unreadable, or its digest differs from the stored checksum, the request
\* update() issues carries neither if-none-match nor if-modified-since,
\* whatever tokens are stored; the same goes for the retry request.
C4_CacheBypass ==
    \A i \in DOMAIN requests :
        (i = 1 =>
            \/ start.data_checksum = NoChecksum
            \/ start.file.st # "ok"
            \/ Sha256(start.file.text) # start.data_checksum)
        => Conditional(requests[i]) = {}

C4_Witness ==
    /\ requests # <<>>
    /\ start.file.st = "ok"
    /\ start.data_checksum # NoChecksum
    /\ Sha256(start.file.text) # start.data_checksum
    /\ start.http_etag # ""
    /\ start.http_last_modified # ""
    /\ Conditional(requests[1]) = {}

\* C5: after update() got a 200 and returned, the in-memory dataset is the
\* parsed response body, the local file holds that dataset as json.dump
\* writes it, and data_checksum is the digest of the file as written.
C5_FreshCopy ==
    (pc = "done" /\ Last(responses).status = 200)
        => /\ data = json_load(Last(responses).body)
           /\ file.st = "ok"
           /\ file.text = json_dump(data)
           /\ data_checksum # NoChecksum
           /\ data_checksum = Sha256(file.text)

\* The 200 body is laid out differently from what json.dump writes, and the
\* stored checksum was another one.
C5_Witness ==
    /\ pc = "done"
    /\ Last(responses).status = 200
    /\ Last(responses).body.enc = "raw"
    /\ start.file.st = "ok"
    /\ start.file.text # file.text
    /\ data_checksum # start.data_checksum
    /\ data_checksum # Sha256(Last(responses).body)

\* The last response carried a status other than 200 and 304.
UnexpectedStatus ==
    /\ responses # <<>>
    /\ Last(responses).status \notin {200, 304}

\* C6 as stated: on a status other than 200 and 304, update() aborts with an
\* error other than RecursionError, issues no further request, and data,
\* data_checksum, http_etag, http_last_modified and the local file are as they
\* were before the call.
C6_Original ==
    UnexpectedStatus
        => /\ pc = "raised"
           /\ raised \notin {"", "RecursionError"}
           /\ Len(requests) = Len(responses)
           /\ data = start.data
           /\ file = start.file
           /\ data_checksum = start.data_checksum
           /\ http_etag = start.http_etag
           /\ http_last_modified = start.http_last_modified

\* C6 amended: on a status other than 200 and 304, update() aborts with
\* ValueError, issues no further request, and leaves data and the local file
\* as they were before the call; data_checksum, http_etag and
\* http_last_modified are as before the call when the status answers the
\* first request, and are empty when it answers the retry request that
\* follows a 304 with a missing local file.
C6_UnexpectedStatus ==
    UnexpectedStatus
        => /\ pc = "raised"
           /\ raised = "ValueError"
           /\ Len(requests) = Len(responses)
           /\ data = start.data
           /\ file = start.file
           /\ IF Len(responses) = 1
              THEN /\ data_checksum = start.data_checksum
                   /\ http_etag = start.http_etag
                   /\ http_last_modified = start.http_last_modified
              ELSE /\ data_checksum = NoChecksum
                   /\ http_etag = ""
                   /\ http_last_modified = ""

\* The unexpected status answers the retry, after the fields were cleared.
C6_Witness ==
    /\ UnexpectedStatus
    /\ Len(responses) = 2
    /\ raised = "ValueError"
    /\ start.data_checksum # NoChecksum
    /\ start.http_etag # ""
    /\ http_etag = ""

----------------------------------------------------------------------------
(* Properties of the selection pipeline.                                    *)

\* The pricing table and the instance type table select_data was given.
Table == dataset.spot_advisor[args.region][args.os]
Types == dataset.instance_types

\* The range an index refers to: the last entry of ranges with that index.
Indexes == {dataset.ranges[i].index : i \in DOMAIN dataset.ranges}
RefRange(r) ==
    LET I == {i \in DOMAIN dataset.ranges : dataset.ranges[i].index = r}
    IN  dataset.ranges[CHOOSE i \in I : \A j \in I : j <= i]

\* The identifier has exactly one '.', and its size token contains "metal".
WellFormed(id) == Cardinality({i \in DOMAIN id : id[i] = "."}) = 1
MetalSize(id) ==
    \E p \in DOMAIN id :
        /\ id[p] = "."
        /\ \E i \in (p + 1)..Len(id) : OccursAt(id, <<"m", "e", "t", "a", "l">>, i)

InSavings(k) ==
    args.savings_min <= Table[k].s /\ Table[k].s <= args.savings_max
InResources(k) ==
    /\ args.vcpu_min <= Types[k].cores /\ Types[k].cores <= args.vcpu_max
    /\ args.mem_min <= Types[k].ram_gb /\ Types[k].ram_gb <= args.mem_max
    /\ args.emr_only => Types[k].emr
InExclusivity(k) ==
    /\ args.exclude_metal => ~MetalSize(k)
    /\ args.exclude_vm => MetalSize(k)

\* C7: if an instance type that passes every filter references a range index
\* that is not a key of the lookup built from ranges, select_data aborts with
\* DataProcessingException: it neither returns nor raises anything else.
C7_MissingRangeIsDataError ==
    (/\ selected.kind # "none"
     /\ \E k \in DOMAIN Table \cap DOMAIN Types :
          /\ Table[k].r \notin Indexes
          /\ InSavings(k)
          /\ InResources(k)
          /\ WellFormed(k)
          /\ InExclusivity(k))
        => selected.kind = "DataProcessingException"

C9_FacetFilterApplied ==
    selected.kind = "ok"
        => \A k \in DOMAIN selected.results :
              filter_instance_type(k,
                  args.re_exclude_instance_series,
                  args.re_include_instance_series,
                  args.re_exclude_instance_generations,
                  args.re_include_instance_generations,
                  args.re_exclude_instance_options,
                  args.re_include_instance_options)

----------------------------------------------------------------------------
(* Properties of the numeric range predicates.                              *)

\* C10: filter_vcpu, filter_mem, filter_savings and filter_inters keep a value
\* exactly when min <= value <= max: value = min and value = max are kept when
\* min <= max, value = min - 1 and value = max + 1 are discarded, and every
\* value is discarded when min > max.
C10_ClosedInterval ==
    verdict.done
        => \A keep \in {verdict.vcpu, verdict.mem, verdict.savings, verdict.inters} :
              /\ keep <=> (probe.min <= probe.value /\ probe.value <= probe.max)
              /\ (probe.min <= probe.max /\ probe.value \in {probe.min, probe.max})
                    => keep
              /\ probe.value \in {probe.min - 1, probe.max + 1} => ~keep
              /\ probe.min > probe.max => ~keep

\* The value is the upper bound of a proper interval, and is kept.
C10_Witness ==
    /\ verdict.done
    /\ probe.min < probe.max
    /\ probe.value = probe.max
    /\ verdict.vcpu /\ verdict.mem /\ verdict.savings /\ verdict.inters

----------------------------------------------------------------------------
(* Properties of the predicates on identifiers.                             *)

\* Number of "." separators in an identifier
Dots(id) == Cardinality({i \in DOMAIN id : id[i] = "."})

\* C11, as stated: include_instance_type ends with ValueError for every
\* identifier that does not hold exactly one "." separator, whatever the two
\* flags are.
C11_Original ==
    classified.done =>
        (Dots(call.instance_type) # 1 => classified.include = "ValueError")

\* C11: include_instance_type ends with ValueError exactly when at least one
\* of exclude_metal and exclude_vm is set and the identifier does not hold
\* exactly one "." separator; with neither flag set it keeps every
\* identifier, malformed ones included.
C11_MalformedIdentifier ==
    classified.done =>
        /\ classified.include = "ValueError"
             <=> /\ Dots(call.instance_type) # 1
                 /\ call.exclude_metal \/ call.exclude_vm
        /\ (~call.exclude_metal /\ ~call.exclude_vm)
             => classified.include = "keep"

C11_Witness ==
    /\ classified.done
    /\ Dots(call.instance_type) = 2
    /\ call.exclude_metal
    /\ ~call.exclude_vm
    /\ classified.include = "ValueError"

\* C12: filter_by_regex keeps, with an include pattern, exactly what the
\* include pattern matches, whatever the exclude pattern; without an include
\* pattern it discards exactly what a configured exclude pattern matches; with
\* neither pattern it keeps.
C12_IncludeFirst ==
    classified.done =>
        LET re_include == facet_patterns(call.facets).re_include_instance_series
            re_exclude == facet_patterns(call.facets).re_exclude_instance_series
        IN  /\ re_include # None
                 => (classified.by_regex
                        <=> re_search(re_include, call.instance_type))
            /\ (re_include = None /\ re_exclude # None)
                 => (~classified.by_regex
                        <=> re_search(re_exclude, call.instance_type))
            /\ (re_include = None /\ re_exclude = None)
                 => classified.by_regex

C12_Witness ==
    /\ classified.done
    /\ facet_patterns(call.facets).re_include_instance_series # None
    /\ facet_patterns(call.facets).re_exclude_instance_series # None
    /\ re_search(facet_patterns(call.facets).re_exclude_instance_series,
                 call.instance_type)
    /\ classified.by_regex

\* C13: filter_instance_type keeps every identifier that
\* parse_ec2_instance_type cannot parse, whatever the include and exclude
\* patterns are, and ends with no exception.
C13_FailOpen ==
    (classified.done /\ ~classified.parsed.ok) => classified.keep = TRUE

C13_Witness ==
    /\ classified.done
    /\ ~classified.parsed.ok
    /\ call.facets.include_instance_series = <<<<"x">>>>
    /\ call.facets.include_instance_generations = <<<<"2">>>>
    /\ classified.keep

\* What parse_ec2_instance_type returns as one value
Parsed(series, gen, opts, size) ==
    [ok |-> TRUE, series |-> series, gen |-> gen, opts |-> opts, size |-> size]

\* C14, as stated: c7i-flex.large parses to (c, 7, -flex, large),
\* u-6tb1.56xlarge to (u, 0, 6tb1, 56xlarge) and mac2-m2pro.metal to
\* (mac, 2, -m2pro, metal).
C14_Original ==
    classified.done =>
        /\ call.instance_type = C7iFlexLarge
             => classified.parsed
                  = Parsed(<<"c">>, <<"7">>, <<"-", "f", "l", "e", "x">>,
                           <<"l", "a", "r", "g", "e">>)
        /\ call.instance_type = U6tb1
             => classified.parsed
                  = Parsed(<<"u">>, <<"0">>, <<"6", "t", "b", "1">>,
                           <<"5", "6", "x", "l", "a", "r", "g", "e">>)
        /\ call.instance_type = Mac2M2pro
             => classified.parsed
                  = Parsed(<<"m", "a", "c">>, <<"2">>,
                           <<"-", "m", "2", "p", "r", "o">>,
                           <<"m", "e", "t", "a", "l">>)

\* C14: c7i-flex.large parses to (c, 7, i-flex, large): the options are all
\* that follows the generation; u-6tb1.56xlarge parses to
\* (u, 0, 6tb1, 56xlarge) and mac2-m2pro.metal to (mac, 2, -m2pro, metal).
C14_Examples ==
    classified.done =>
        /\ call.instance_type = C7iFlexLarge
             => classified.parsed
                  = Parsed(<<"c">>, <<"7">>, <<"i", "-", "f", "l", "e", "x">>,
                           <<"l", "a", "r", "g", "e">>)
        /\ call.instance_type = U6tb1
             => classified.parsed
                  = Parsed(<<"u">>, <<"0">>, <<"6", "t", "b", "1">>,
                           <<"5", "6", "x", "l", "a", "r", "g", "e">>)
        /\ call.instance_type = Mac2M2pro
             => classified.parsed
                  = Parsed(<<"m", "a", "c">>, <<"2">>,
                           <<"-", "m", "2", "p", "r", "o">>,
                           <<"m", "e", "t", "a", "l">>)

C14_Witness ==
    /\ classified.done
    /\ call.instance_type = C7iFlexLarge
    /\ classified.parsed.ok
    /\ classified.parsed.opts = <<"i", "-", "f", "l", "e", "x">>

\* The reference decomposition of an identifier.
UpperLetters ==
    {"A", "B", "C", "D", "E", "F", "G", "H", "I", "J", "K", "L", "M", "N", "O",
     "P", "Q", "R", "S", "T", "U", "V", "W", "X", "Y", "Z"}
AllLetters(s, from, to) ==
    \A i \in from..to : s[i] \in Letters \cup UpperLetters
AllDigits(s, from, to) == \A i \in from..to : s[i] \in Digits
RefParse(id) ==
    IF Dots(id) # 1
    THEN [ok |-> FALSE]
    ELSE LET dot == CHOOSE i \in DOMAIN id : id[i] = "."
             fam == SubSeq(id, 1, dot - 1)
             size == SubSeq(id, dot + 1, Len(id))
             \* letters 1..nl, digits nl+1..nl+nd, and no digit behind them
             Numbered(nl, nd) ==
                 /\ nl >= 1 /\ nd >= 1 /\ nl + nd <= Len(fam)
                 /\ AllLetters(fam, 1, nl)
                 /\ AllDigits(fam, nl + 1, nl + nd)
                 /\ nl + nd < Len(fam) => fam[nl + nd + 1] \notin Digits
             \* letters 1..nl, a "-", and at least one more character
             Dashed(nl) ==
                 /\ nl >= 1 /\ nl + 2 <= Len(fam)
                 /\ AllLetters(fam, 1, nl)
                 /\ fam[nl + 1] = "-"
         IN  IF \E nl, nd \in 1..Len(fam) : Numbered(nl, nd)
             THEN LET w == CHOOSE w \in (1..Len(fam)) \X (1..Len(fam)) :
                              Numbered(w[1], w[2])
                  IN  Parsed(Lower(SubSeq(fam, 1, w[1])),
                             SubSeq(fam, w[1] + 1, w[1] + w[2]),
                             Lower(SubSeq(fam, w[1] + w[2] + 1, Len(fam))),
                             Lower(size))
             ELSE IF \E nl \in 1..Len(fam) : Dashed(nl)
             THEN LET nl == CHOOSE nl \in 1..Len(fam) : Dashed(nl)
                  IN  Parsed(Lower(SubSeq(fam, 1, nl)), <<"0">>,
                             Lower(SubSeq(fam, nl + 2, Len(fam))),
                             Lower(size))
             ELSE [ok |-> FALSE]

\* C15: parse_ec2_instance_type agrees with the reference on every
\* identifier: a parse error unless there is exactly one "."; letters then
\* digits give the letter run, the digit run and the rest; letters, a "-" and
\* at least one more character give the letters, "0" and what follows the "-";
\* anything else is a parse error; series, options and size are lower-cased.
C15_Reference ==
    classified.done => classified.parsed = RefParse(call.instance_type)

C15_Witness ==
    /\ classified.done
    /\ call.instance_type \in BoundedIds
    /\ classified.parsed.ok
    /\ classified.parsed.series = <<"m">>
    /\ classified.parsed.gen = <<"7", "7">>

\* C16: with one key A of the series catalog as the include pattern, an
\* identifier whose series is the catalog key B is kept exactly when A = B:
\* the pattern of A matches the series string A and matches no other series
\* string of the catalog.
C16_CatalogDisambiguated ==
    (/\ classified.done
     /\ classified.parsed.ok
     /\ classified.parsed.series \in DOMAIN list_series
     /\ \E key \in DOMAIN list_series :
            call.facets = [NoFacets EXCEPT !.include_instance_series = <<key>>])
        => (classified.keep
              <=> call.facets.include_instance_series
                    = <<classified.parsed.series>>)

\* C17: with --include-instance-generations G, a parseable identifier is kept
\* only if its generation is one of G.
C17_OnlyListedGenerations ==
    (/\ classified.done
     /\ call.facets.include_instance_generations # <<>>
     /\ classified.parsed.ok
     /\ classified.keep)
        => \E g \in Chunks(call.facets.include_instance_generations) :
               IntValue(g) = DecValue(classified.parsed.gen)

----------------------------------------------------------------------------
(* Properties of sorting and formatting.                                    *)

\* The selected record a row of the output was printed from
RecordOf(row) ==
    CHOOSE r \in Range(fmt_results) : r.instance_type = row.instance_type

\* The rows are the selected records, each once
RowsOfResults ==
    /\ Len(output.rows) = Len(fmt_results)
    /\ \A i \in DOMAIN fmt_results :
           \E j \in DOMAIN output.rows :
               output.rows[j] = print_dict(fmt_results[i])

\* C18: with the default sort order the rows are the selected records by
\* interruption bound ascending and, within one bound, by savings descending;
\* the records with savings 80 / 76 / 75 and bounds 11 / 5 / 5 come out as
\* 76, 75, 80.
C18_DefaultOrder ==
    (output.kind = "ok" /\ sort_order = DefaultSortOrder) =>
        /\ RowsOfResults
        /\ \A i, j \in DOMAIN output.rows :
               i < j =>
                 LET a == RecordOf(output.rows[i])
                     b == RecordOf(output.rows[j])
                 IN  \/ a.inter_max < b.inter_max
                     \/ a.inter_max = b.inter_max /\ a.savings >= b.savings
        /\ {fmt_results[i].instance_type : i \in DOMAIN fmt_results}
               = {T3Nano, T2Nano, T2Large}
             => [i \in DOMAIN output.rows |-> output.rows[i].savings]
                  = <<76, 75, 80>>

C18_Witness ==
    /\ output.kind = "ok"
    /\ sort_order = DefaultSortOrder
    /\ Len(fmt_results) = 3
    /\ fmt_results[1].instance_type = T3Nano
    /\ fmt_results[2].instance_type = T2Nano
    /\ fmt_results[3].instance_type = T2Large
    /\ output.rows[1].instance_type = T2Nano
    /\ output.rows[3].instance_type = T3Nano

\* a <= b for two values of one column: strings, booleans or numbers
ColumnLeq(column, a, b) ==
    IF column = "instance_type" THEN a = b \/ StrLess(a, b)
    ELSE IF column = "emr" THEN a => b
    ELSE a <= b

\* C19: with a sort order of one column and one direction, the rows are in
\* non-decreasing order of that column for asc and in non-increasing order
\* for desc, for instance_type as for the other columns.
C19_SingleColumn ==
    \A c \in DOMAIN column_lookup : \A o \in DOMAIN order_lookup :
        (output.kind = "ok" /\ sort_order = c \o <<":">> \o o) =>
            \A i, j \in DOMAIN output.rows :
                i < j =>
                  LET a == RecordOf(output.rows[i])[column_lookup[c]]
                      b == RecordOf(output.rows[j])[column_lookup[c]]
                  IN  IF order_lookup[o] = 1
                      THEN ColumnLeq(column_lookup[c], a, b)
                      ELSE ColumnLeq(column_lookup[c], b, a)

----------------------------------------------------------------------------
(* Properties of main.                                                      *)

\* The command line holds what parse_args rejects with ValueError
ValidationError ==
    ~parse_args(argv).ok /\ parse_args(argv).exc = "ValueError"

\* C20: a run whose command line fails validation issues no request, writes
\* neither the dataset file nor the cache-state file, and ends with exit
\* status 2 and in no other way; exit status 2 is only that of such a run.
C20_ValidationFirst ==
    /\ ValidationError
         => /\ main_pc \in {"parse_args", "exit"}
            /\ main_pc = "exit" => exit_code = 2
            /\ requests = <<>>
            /\ writes = 0
            /\ config_writes = 0
            /\ pc = "idle"
    /\ exit_code = 2
         => /\ ValidationError
            /\ requests = <<>> /\ writes = 0 /\ config_writes = 0

C20_Witness ==
    /\ main_pc = "exit"
    /\ exit_code = 2
    /\ argv.sort_order = <<"p", "r", "i", "c", "e", ":", "a", "s", "c">>
    /\ requests = <<>>

----------------------------------------------------------------------------
(* The retry path of update(), its bounds and what a successful call leaves. *)

\* http_etag, http_last_modified and data_checksum are all empty.
FieldsEmpty ==
    /\ http_etag = ""
    /\ http_last_modified = ""
    /\ data_checksum = NoChecksum

\* C24: when update() gets a 304 and the local file does not exist, it sets
\* http_etag, http_last_modified and data_checksum to empty and retries
\* exactly once, with a request that carries no conditional header; when the
\* retry ends in 304 with the file still missing, RecursionError is raised
\* and the three fields are still empty.
C24_RetryOnce ==
    (responses # <<>> /\ responses[1].status = 304 /\ start.file.st = "missing")
        => /\ Len(requests) = 2
           /\ Conditional(requests[2]) = {}
           /\ is_retry
           /\ Len(responses) = 1 => (pc # "done" /\ FieldsEmpty)
           /\ (Len(responses) = 2 /\ responses[2].status = 304)
                => (pc = "raised" /\ raised = "RecursionError" /\ FieldsEmpty)
           /\ raised = "RecursionError" => FieldsEmpty

\* Both tokens and a checksum were stored; the retry was answered 304 too.
C24_Witness ==
    /\ start.file.st = "missing"
    /\ start.http_etag # ""
    /\ start.http_last_modified # ""
    /\ start.data_checksum # NoChecksum
    /\ Len(responses) = 2
    /\ responses[1].status = 304
    /\ responses[2].status = 304
    /\ raised = "RecursionError"
    /\ FieldsEmpty

\* C25 (bounds): a call of update() sends at most two requests and writes the
\* dataset file at most once; it sends two only when the first response was
\* 304 and the local file did not exist.
C25_Bounds ==
    /\ Len(requests) <= 2
    /\ writes <= 1
    /\ Len(requests) = 2
         => /\ responses # <<>>
            /\ responses[1].status = 304
            /\ start.file.st = "missing"

\* update() has returned or raised.
Terminated == pc \in {"done", "raised"}

\* C25: every call of update() terminates, having sent at most two requests
\* and written the dataset file at most once; two requests are sent only when
\* the first response was 304 and the local file did not exist.
C25_Terminates == []C25_Bounds /\ <>Terminated

\* A call that ended with two requests and one write.
C25_Witness ==
    /\ pc = "done"
    /\ Len(requests) = 2
    /\ writes = 1
    /\ responses[1].status = 304
    /\ start.file.st = "missing"

\* C27: whenever update() returns, the local dataset file exists and the
\* in-memory dataset is the document parsed from that file's content.
C27_FileMatchesMemory ==
    pc = "done" => (file.st = "ok" /\ data = json_load(file.text))

\* A return on the 304 path, from a file laid out otherwise than json.dump
\* does, and a return on the 200 path that replaced the file's document.
C27_Witness ==
    /\ pc = "done"
    /\ \/ /\ Last(responses).status = 304
          /\ file.text.enc = "raw"
          /\ data = file.text.doc
       \/ /\ Last(responses).status = 200
          /\ start.file.st = "ok"
          /\ start.file.text.doc # file.text.doc
          /\ data = file.text.doc

\* C28: whenever update() returns, whatever the remote did (a 304 answering
\* a request without conditional headers included), data_checksum is
\* non-empty and is the checksum of the local file.
C28_ChecksumOfFile ==
    pc = "done"
        => /\ file.st = "ok"
           /\ data_checksum # NoChecksum
           /\ data_checksum = Sha256(file.text)

----------------------------------------------------------------------------
(* include_instance_type on the size token.                                  *)

\* The part of an identifier after its single "."
SizeToken(id) == Split(id, ".")[2]

\* The text holds the five characters m, e, t, a, l in a row.
ContainsMetal(s) ==
    \E i \in DOMAIN s :
        /\ i + 4 <= Len(s)
        /\ s[i] = "m" /\ s[i + 1] = "e" /\ s[i + 2] = "t"
        /\ s[i + 3] = "a" /\ s[i + 4] = "l"

\* C26: include_instance_type decides on the size token, the part after the
\* single ".".  With neither flag every identifier is kept; with only
\* exclude_metal an identifier is discarded exactly when its size token
\* contains "metal"; with only exclude_vm exactly when it does not; with both
\* flags every well-formed identifier is discarded.
C26_SizeDecides ==
    classified.done =>
        LET id == call.instance_type
            out == classified.include
        IN  /\ (~call.exclude_metal /\ ~call.exclude_vm) => out = "keep"
            /\ Dots(id) = 1 =>
                 /\ out \in {"keep", "discard"}
                 /\ (call.exclude_metal /\ ~call.exclude_vm)
                      => (out = "discard" <=> ContainsMetal(SizeToken(id)))
                 /\ (~call.exclude_metal /\ call.exclude_vm)
                      => (out = "discard" <=> ~ContainsMetal(SizeToken(id)))
                 /\ (call.exclude_metal /\ call.exclude_vm) => out = "discard"

\* A size that holds "metal" and more is discarded with exclude_metal, and an
\* identifier that holds it before the "." only is kept.
C26_Witness ==
    /\ classified.done
    /\ call.exclude_metal
    /\ ~call.exclude_vm
    /\ \/ (call.instance_type = C7iMetal24xl /\ classified.include = "discard")
       \/ (call.instance_type = Metal1Large /\ classified.include = "keep")

----------------------------------------------------------------------------
(* select_data as a function of its arguments.                               *)

\* The second call returned what the first returned: the same identifiers
\* with equal records, or it ended with the same exception.
SameOutcome ==
    again.kind # "none"
        => /\ again.kind = selected.kind
           /\ again.kind = "ok"
                => /\ DOMAIN again.results = DOMAIN selected.results
                   /\ \A key \in DOMAIN again.results :
                        again.results[key] = selected.results[key]

\* C30: select_data is deterministic and read-only: a call leaves the
\* dataset (and the arguments) unchanged, and two calls with the same
\* dataset, region, OS and criteria return the same identifiers with equal
\* records, in whatever order the dataset's mappings are iterated.
C30_Deterministic ==
    /\ [][dataset' = dataset /\ args' = args]_vars
    /\ []SameOutcome

\* Two calls that returned two or more records.
C30_Witness ==
    /\ again.kind = "ok"
    /\ selected.kind = "ok"
    /\ Cardinality(DOMAIN again.results) >= 2
    /\ Cardinality(DOMAIN dataset.instance_types) = 3

----------------------------------------------------------------------------
(* main: the order of its checks, its handling of a failed synchronisation   *)
(* and the cache-state file.                                                 *)

\* s is a prefix of t
IsPrefix(s, t) == Len(s) <= Len(t) /\ s = SubSeq(t, 1, Len(s))

\* The run was given --region and main has started on it.
RegionRun == ~argv.list_regions /\ argv.region # "" /\ called # <<>>

\* C21: with --region, main checks that the region exists, then that the
\* operating system exists for the region, then selects.  With the region
\* missing it exits with status 1 having evaluated neither has_os nor
\* select_data and printed no report; with only the operating system missing
\* it exits with status 1 without select_data and without a report.
C21_ChecksInOrder ==
    (~argv.list_regions /\ argv.region # "")
        => /\ IsPrefix(called, <<"has_region", "has_os", "select_data", "fmt">>)
           /\ (RegionRun /\ ~has_region(Document(data), argv.region))
                => /\ called = <<"has_region">>
                   /\ main_pc = "exit"
                   /\ exit_code = 1
                   /\ stdout.kind = "none"
           /\ (RegionRun /\ has_region(Document(data), argv.region)
                         /\ ~has_os(Document(data), argv.region, argv.os))
                => /\ called = <<"has_region", "has_os">>
                   /\ main_pc = "exit"
                   /\ exit_code = 1
                   /\ stdout.kind = "none"
           /\ stdout.kind # "none"
                => /\ called = <<"has_region", "has_os", "select_data", "fmt">>
                   /\ has_os(Document(data), argv.region, argv.os)

\* A run that passed the region check and stopped at the operating system
\* check: ap-south-1 has Linux only.
C21_Witness ==
    /\ main_pc = "exit"
    /\ exit_code = 1
    /\ stdout.kind = "none"
    /\ called = <<"has_region", "has_os">>
    /\ argv.region = "ap-south-1"
    /\ argv.os = "Windows"
    /\ has_region(Document(data), argv.region)

\* C22: every failure of the dataset synchronisation in main (network
\* failure, filesystem error, HTTP status other than 200 and 304, 304 twice
\* with the file missing) is caught at the top level, logged as an error and
\* turned into exit status 1, with no report printed.
C22_FailuresCaught ==
    (pc = "raised" /\ main_pc # "update")
        => /\ main_pc = "exit"
           /\ exit_code = 1
           /\ logged = <<"Failed to get AWS Spot Advisor data">>
           /\ stdout.kind = "none"

\* The three values read from the cache-state file at startup
start_config ==
    [data_checksum |-> start.data_checksum, http_etag |-> start.http_etag,
     http_last_modified |-> start.http_last_modified]

\* The DataSet's three fields as the cache-state file holds them
FieldsOfDataSet ==
    [data_checksum |-> data_checksum, http_etag |-> http_etag,
     http_last_modified |-> http_last_modified]

\* conf.write failed with an OSError, which main has logged.
ConfWriteFailed ==
    pc = "done" /\ logged = <<"Failed to get AWS Spot Advisor data">>

\* C23: get_dataset reads the cache state, runs one synchronisation and,
\* after it succeeded, writes the cache-state file exactly once, with the
\* three values the DataSet holds when update() returned; the write comes
\* after the synchronisation and before get_dataset returns.
C23_WriteOnce ==
    /\ config_writes <= 1
    /\ main_pc = "update" => (config_writes = 0 /\ config = start_config)
    /\ config_writes = 1
         => /\ pc = "done"
            /\ requests # <<>>
            /\ config = FieldsOfDataSet
    /\ (pc = "done" /\ main_pc # "update" /\ ~ConfWriteFailed)
         => config_writes = 1

\* C29: when update() aborts inside get_dataset, the cache-state file is not
\* written in that run: its three values stay as they were read at startup,
\* also when update() has cleared the DataSet's fields on the retry path.
C29_NoWriteOnAbort ==
    pc = "raised"
        => /\ config_writes = 0
           /\ config = [data_checksum |-> start.data_checksum,
                        http_etag |-> start.http_etag,
                        http_last_modified |-> start.http_last_modified]

\* update() cleared the fields, then aborted; the file keeps what it held.
C29_Witness ==
    /\ pc = "raised"
    /\ main_pc \in {"exit", "crashed"}
    /\ is_retry
    /\ FieldsEmpty
    /\ config.http_etag # ""
    /\ config.data_checksum # NoChecksum
    /\ config_writes = 0

====
